---- MODULE Spec2Model ----
(***************************************************************************)
(* A model of the DistributedFileSystem repository: the per-node chunk     *)
(* service (storage_service.cpp over StorageNode.cpp), leader election     *)
(* over the coordination service, and the cluster coordinator              *)
(* (FileSystemManager.h, the cluster-aware manager).                       *)
(***************************************************************************)
EXTENDS Integers, Sequences, FiniteSets, TLC

VARIABLES
    fileMap,      \* StorageNode::fileMap of each storage server: key -> full path
    disk,         \* the files under each server's basePath: full path -> content
    last,         \* the last RPC a storage server answered: request and response
    zkLeader,     \* owner session of the ephemeral key /dfs/leader, or NoOwner
    session,      \* coordination-service session of each coordinator instance
    epc,          \* where each coordinator instance stands in its election life
    isLeader,     \* ClusterState::isLeader of each coordinator instance
    currentTerm,  \* ClusterState::currentTerm of each coordinator instance
    leaderId,     \* ClusterState::leaderId of each coordinator instance
    config,       \* ClusterConfig of the cluster coordinator, fixed at construction
    nodes,        \* ClusterState::nodes of the coordinator: node id -> "ptr" or "null"
    partitionMap, \* ClusterState::partitionMap: sequence of node ids
    zkNodes,      \* the entries under /dfs/nodes of the coordination service
    up,           \* the storage servers that answer RPCs
    crashed,      \* the coordinator process dereferenced a null node and died
    op,           \* the client call in progress or last completed
    prev,         \* the client call completed before it
    stable,       \* membership has not changed since the client call began
    calls,        \* client calls started
    faults,       \* times a storage server stopped or resumed answering
    changes,      \* membership changes so far
    zkSession,    \* the coordinator's session with the coordination service
    admin,        \* the last membership or health call and what it returned
    nodeList,     \* FileSystemManager::nodes of the single-process manager
    build,        \* which definition of its addStorageNode the build keeps
    thrown,       \* what its last addStorageNode threw, "" when it returned
    mon,          \* the health monitor: where its loop stands, the nodes it collected
    lock,         \* stateMutex: the thread that holds it, or NoOwner
    stmt,         \* the statement each thread of the coordinator is executing, 0 when idle
    clusterStats, \* the ClusterStats the last getClusterStats returned, with each probe's answer
    handlers,     \* the request each handler thread of a storage server is serving, and where it stands
    durable,      \* keys whose store returned true with no delete of the key begun since
    serving,      \* the storage server process is alive
    balance,      \* the last rebalanceCluster pass: its node count, target and the nodes it singled out
    localMaps,    \* StorageNode::fileMap of each node of the single-process manager's list
    localDisk,    \* the files under those nodes' directories: full path -> content
    localCall,    \* the last file call on the single-process manager and what it returned
    latest        \* per filename, the last writeFile that returned true, no delete or move of the file since

nodeVars == <<fileMap, disk, last>>
electVars == <<zkLeader, session, epc, isLeader, currentTerm, leaderId>>
clusterVars == <<config, nodes, partitionMap, zkNodes, up, crashed, op, prev, stable, calls, faults, changes, zkSession, admin>>
localVars == <<nodeList, build, thrown>>
monitorVars == <<mon>>
lockVars == <<lock, stmt>>
healthVars == <<clusterStats>>
serviceVars == <<handlers, durable, serving>>
balanceVars == <<balance>>
fileVars == <<localMaps, localDisk, localCall, latest>>
vars == <<fileMap, disk, last, zkLeader, session, epc, isLeader, currentTerm, leaderId,
          config, nodes, partitionMap, zkNodes, up, crashed, op, prev, stable, calls, faults, changes, zkSession, admin,
          nodeList, build, thrown, mon, lock, stmt, clusterStats, handlers, durable, serving, balance, localMaps, localDisk, localCall, latest>>

(***************************************************************************)
(* Bounds and input domains.                                               *)
(***************************************************************************)
MaxDataLen == 2
MaxFileLen == 3
MaxReplicationFactor == 2
MaxCalls == 2
MaxFaults == 1
MaxChanges == 2
MaxQuorumSize == 2
MaxAdminCalls == 4
Bytes == {1}
NodeIds == {"n1", "n2", "n3"}
Coordinators == {"c1", "c2", "c3"}
\* Values an int that no constructor initialises may hold.
IndeterminateInts == {0, 4}
ServiceNode == "n1"
FileNames == {"", "f", "f.chunk1"}
ChunkNumbers == {-1, 0, 1}

RECURSIVE SeqsUpTo(_)
SeqsUpTo(n) ==
    IF n = 0 THEN {<<>>}
    ELSE LET shorter == SeqsUpTo(n - 1)
         IN shorter \cup {Append(s, b) : s \in {t \in shorter : Len(t) = n - 1}, b \in Bytes}

DataSet == SeqsUpTo(MaxDataLen)

(***************************************************************************)
(* Pure helpers of the chunk service.                                      *)
(***************************************************************************)
Digit == <<"0", "1", "2", "3", "4", "5", "6", "7", "8", "9">>

\* std::to_string of a non-negative int.
RECURSIVE to_string(_)
to_string(n) ==
    IF n < 10 THEN Digit[n + 1]
    ELSE to_string(n \div 10) \o Digit[(n % 10) + 1]

HexDigit == <<"0", "1", "2", "3", "4", "5", "6", "7", "8", "9", "a", "b", "c", "d", "e", "f">>

\* The digest of computeChecksum. MD5's 16 bytes are reduced to one byte, a
\* deterministic function of the exact payload bytes.
RECURSIVE MD5(_)
MD5(data) ==
    IF data = <<>> THEN 212
    ELSE (MD5(SubSeq(data, 1, Len(data) - 1)) * 31 + data[Len(data)] + 17) % 256

\* computeChecksum: the digest rendered as lowercase hex, two characters a byte.
computeChecksum(data) ==
    LET b == MD5(data)
    IN HexDigit[(b \div 16) + 1] \o HexDigit[(b % 16) + 1]

\* The checksums a request may carry for payload d: none, the right one, wrong ones.
Checksums(d) == {"", computeChecksum(d), computeChecksum(Append(d, 1))}

basePath == "/data"

getFullPath(filename) == basePath \o "/" \o filename

(***************************************************************************)
(* StorageNode (StorageNode.cpp): the local chunk store of one server.     *)
(* Each operation maps the server's (fileMap, disk) to its result; ioOk    *)
(* says whether the output file could be opened.                           *)
(***************************************************************************)
EmptyMap == [k \in {} |-> ""]

NoOwner == "none"

Put(m, k, v) == [x \in (DOMAIN m) \cup {k} |-> IF x = k THEN v ELSE m[x]]

Drop(m, k) == [x \in (DOMAIN m) \ {k} |-> m[x]]

\* A store that appends to the existing file instead of truncating it.
WrittenContent_Append(old, content) == old \o content

\* Content the output stream leaves in the file: std::ofstream truncates on open.
WrittenContent(old, content) == content

storeFile(fm, dk, filename, content, ioOk) ==
    LET fullPath == getFullPath(filename)
        old == IF fullPath \in DOMAIN dk THEN dk[fullPath] ELSE <<>>
    IN IF ioOk
       THEN [ok |-> TRUE,
             fileMap |-> Put(fm, filename, fullPath),
             disk |-> Put(dk, fullPath, WrittenContent(old, content))]
       ELSE [ok |-> FALSE, fileMap |-> fm, disk |-> dk]

retrieveFile(fm, dk, filename) ==
    IF filename \in DOMAIN fm /\ fm[filename] \in DOMAIN dk
    THEN dk[fm[filename]]
    ELSE <<>>

\* A deleteFile that removes the file and keeps its key.
deleteFile_KeepsKey(fm, dk, filename, ioOk) ==
    IF filename \in DOMAIN fm /\ fm[filename] \in DOMAIN dk /\ ioOk
    THEN [ok |-> TRUE, fileMap |-> fm, disk |-> Drop(dk, fm[filename])]
    ELSE [ok |-> FALSE, fileMap |-> fm, disk |-> dk]

\* ioOk: std::filesystem::remove neither throws nor fails.
deleteFile(fm, dk, filename, ioOk) ==
    IF filename \in DOMAIN fm /\ fm[filename] \in DOMAIN dk /\ ioOk
    THEN [ok |-> TRUE, fileMap |-> Drop(fm, filename), disk |-> Drop(dk, fm[filename])]
    ELSE [ok |-> FALSE, fileMap |-> fm, disk |-> dk]

listFiles(fm) == DOMAIN fm

(***************************************************************************)
(* StorageServiceImpl (storage_service.cpp): the RPC handlers.             *)
(***************************************************************************)
\* A validation that forgets the chunk number.
validateRequest_NoChunkCheck(filename, chunk_number, data) ==
    /\ filename # ""
    /\ data # <<>>

validateRequest(filename, chunk_number, data) ==
    /\ filename # ""
    /\ data # <<>>
    /\ ~(chunk_number < 0)

\* A StoreChunk that never verifies the checksum.
ChecksumMismatch_Skipped(data, checksum) == FALSE

\* StoreChunk's "verify checksum if provided" test: TRUE when the request is refused.
ChecksumMismatch(data, checksum) ==
    /\ checksum # ""
    /\ computeChecksum(data) # checksum

\* StoreChunk's "create filename with chunk number if needed".
StoreKey(filename, chunk_number) ==
    IF chunk_number > 0
    THEN filename \o ".chunk" \o to_string(chunk_number)
    ELSE filename

\* A retrieval that suffixes chunk 0 as well.
RetrieveKey_SuffixZero(filename, chunk_number) ==
    IF chunk_number >= 0
    THEN filename \o ".chunk" \o to_string(chunk_number)
    ELSE filename

\* RetrieveChunk's derivation of the same key.
RetrieveKey(filename, chunk_number) ==
    IF chunk_number > 0
    THEN filename \o ".chunk" \o to_string(chunk_number)
    ELSE filename

\* The response and the server's next state for one StoreChunk request.
StoreChunkResult(fm, dk, filename, chunk_number, data, checksum, ioOk) ==
    IF ~validateRequest(filename, chunk_number, data)
    THEN [status |-> "INVALID_ARGUMENT", success |-> FALSE, fileMap |-> fm, disk |-> dk]
    ELSE IF ChecksumMismatch(data, checksum)
    THEN [status |-> "DATA_LOSS", success |-> FALSE, fileMap |-> fm, disk |-> dk]
    ELSE LET r == storeFile(fm, dk, StoreKey(filename, chunk_number), data, ioOk)
         IN [status |-> IF r.ok THEN "OK" ELSE "INTERNAL",
             success |-> r.ok, fileMap |-> r.fileMap, disk |-> r.disk]

\* The response for one RetrieveChunk request.
RetrieveChunkResult(fm, dk, filename, chunk_number) ==
    IF filename = ""
    THEN [status |-> "INVALID_ARGUMENT", success |-> FALSE, data |-> <<>>, checksum |-> ""]
    ELSE LET data == retrieveFile(fm, dk, RetrieveKey(filename, chunk_number))
         IN IF data = <<>>
            THEN [status |-> "NOT_FOUND", success |-> FALSE, data |-> <<>>, checksum |-> ""]
            ELSE [status |-> "OK", success |-> TRUE, data |-> data,
                  checksum |-> computeChecksum(data)]

\* The response and the server's next state for one DeleteFile request.
DeleteFileResult(fm, dk, filename, ioOk) ==
    IF filename = ""
    THEN [status |-> "INVALID_ARGUMENT", success |-> FALSE, fileMap |-> fm, disk |-> dk]
    ELSE LET r == deleteFile(fm, dk, filename, ioOk)
         IN [status |-> "OK", success |-> r.ok, fileMap |-> r.fileMap, disk |-> r.disk]

NoCall ==
    [op |-> "none", filename |-> "", chunk_number |-> 0, data |-> <<>>, checksum |-> "",
     status |-> "", success |-> FALSE, outData |-> <<>>, outChecksum |-> "",
     filenames |-> {}]

StoreChunk(s, filename, chunk_number, data, checksum, ioOk) ==
    LET r == StoreChunkResult(fileMap[s], disk[s], filename, chunk_number, data, checksum, ioOk)
    IN /\ fileMap' = [fileMap EXCEPT ![s] = r.fileMap]
       /\ disk' = [disk EXCEPT ![s] = r.disk]
       /\ last' = [NoCall EXCEPT !.op = "StoreChunk", !.filename = filename,
                                 !.chunk_number = chunk_number, !.data = data,
                                 !.checksum = checksum, !.status = r.status,
                                 !.success = r.success]

RetrieveChunk(s, filename, chunk_number) ==
    LET r == RetrieveChunkResult(fileMap[s], disk[s], filename, chunk_number)
    IN /\ last' = [NoCall EXCEPT !.op = "RetrieveChunk", !.filename = filename,
                                 !.chunk_number = chunk_number, !.status = r.status,
                                 !.success = r.success, !.outData = r.data,
                                 !.outChecksum = r.checksum]
       /\ UNCHANGED <<fileMap, disk>>

DeleteFile(s, filename, ioOk) ==
    LET r == DeleteFileResult(fileMap[s], disk[s], filename, ioOk)
    IN /\ fileMap' = [fileMap EXCEPT ![s] = r.fileMap]
       /\ disk' = [disk EXCEPT ![s] = r.disk]
       /\ last' = [NoCall EXCEPT !.op = "DeleteFile", !.filename = filename,
                                 !.status = r.status, !.success = r.success]

ListFiles(s) ==
    /\ last' = [NoCall EXCEPT !.op = "ListFiles", !.status = "OK",
                              !.filenames = listFiles(fileMap[s])]
    /\ UNCHANGED <<fileMap, disk>>

InitNodes ==
    /\ fileMap = [s \in NodeIds |-> EmptyMap]
    /\ disk = [s \in NodeIds |-> EmptyMap]
    /\ last = NoCall

NoOp ==
    [kind |-> "idle", pc |-> "idle", filename |-> "", data |-> <<>>,
     primaryNodes |-> <<>>, replicaNodes |-> <<>>, idx |-> 0, chunk |-> 0,
     primaryOk |-> FALSE, replOk |-> TRUE, replSent |-> 0,
     tried |-> <<>>, reached |-> <<>>, ok |-> FALSE, outData |-> <<>>,
     tracked |-> {}]

NoPrev ==
    [kind |-> "idle", filename |-> "", data |-> <<>>, ok |-> FALSE, quiet |-> TRUE,
     primaryNodes |-> <<>>, replicaNodes |-> <<>>]

NoAdmin ==
    [n |-> 0, call |-> "none", id |-> "", result |-> FALSE, detail |-> "",
     totalNodes |-> 0, healthyNodes |-> 0,
     pcall |-> "none", pid |-> "", presult |-> FALSE]

\* The ClusterConfig values a coordinator is constructed with.
ClusterConfigs ==
    [replicationFactor : 1..MaxReplicationFactor, quorumSize : 1..MaxQuorumSize]

\* An empty cluster with no client call made; the configuration is fixed.
InitClusterIdle ==
    /\ config = [replicationFactor |-> 1, quorumSize |-> 1]
    /\ nodes = EmptyMap
    /\ partitionMap = <<>>
    /\ zkNodes = {}
    /\ up = NodeIds
    /\ crashed = FALSE
    /\ op = NoOp
    /\ prev = NoPrev
    /\ stable = TRUE
    /\ calls = 0
    /\ faults = 0
    /\ changes = 0
    /\ zkSession = "live"
    /\ admin = NoAdmin

\* No coordinator instance exists yet; the coordination service holds no key.
NoMonitor == [pc |-> "probe", unhealthyNodes |-> <<>>]

InitMonitorIdle == mon = NoMonitor

Threads ==
    {"addStorageNode", "writeFile", "readFile", "getClusterStats",
     "monitorClusterHealth", "performFailover", "rebalanceCluster"}

InitLockIdle == lock = NoOwner /\ stmt = [t \in Threads |-> 0]

\* No getClusterStats has returned yet.
NoClusterStats == [healthyNodes |-> 0, nodeStats |-> EmptyMap]

InitStatsIdle == clusterStats = NoClusterStats

\* No file call has been made on the single-process manager.
NoLocalCall ==
    [n |-> 0, call |-> "none", filename |-> "", content |-> <<>>, source |-> 0, target |-> 0,
     result |-> FALSE, out |-> <<>>]

InitFilesIdle ==
    /\ localMaps = <<>>
    /\ localDisk = EmptyMap
    /\ localCall = NoLocalCall
    /\ latest = EmptyMap

\* No rebalanceCluster has run yet.
NoBalance ==
    [n |-> 0, nodeCount |-> 0, targetPerNode |-> 0, overloadedNodes |-> {}, underloadedNodes |-> {}]

InitBalanceIdle == balance = NoBalance

\* The threads of a storage server's gRPC pool that serve requests.
Handlers == {"h1", "h2", "h3"}

IdleHandler == [op |-> "none", filename |-> "", data |-> <<>>, pc |-> "idle", filenames |-> {}]

InitServiceIdle ==
    /\ handlers = [h \in Handlers |-> IdleHandler]
    /\ durable = {}
    /\ serving = TRUE

InitLocalIdle ==
    /\ nodeList = <<>>
    /\ build = "first"
    /\ thrown = ""

InitElectIdle ==
    /\ zkLeader = NoOwner
    /\ session = EmptyMap
    /\ epc = EmptyMap
    /\ isLeader = EmptyMap
    /\ currentTerm = EmptyMap
    /\ leaderId = EmptyMap

\* One storage server answering requests one at a time.
InitNode == InitNodes /\ InitElectIdle /\ InitClusterIdle /\ InitLocalIdle /\ InitMonitorIdle /\ InitLockIdle /\ InitFilesIdle /\ InitBalanceIdle /\ InitServiceIdle /\ InitStatsIdle

StoreChunkCall ==
    \E f \in FileNames, n \in ChunkNumbers, d \in DataSet, ioOk \in BOOLEAN :
        \E c \in Checksums(d) : StoreChunk(ServiceNode, f, n, d, c, ioOk)

RetrieveChunkCall ==
    \E f \in FileNames, n \in ChunkNumbers : RetrieveChunk(ServiceNode, f, n)

DeleteFileCall ==
    \E f \in FileNames \cup {"f.chunk1.chunk1"}, ioOk \in BOOLEAN : DeleteFile(ServiceNode, f, ioOk)

ListFilesCall == ListFiles(ServiceNode)

NextNode ==
    \/ StoreChunkCall /\ UNCHANGED <<electVars, clusterVars, localVars, monitorVars, lockVars, fileVars, balanceVars, serviceVars, healthVars>>
    \/ RetrieveChunkCall /\ UNCHANGED <<electVars, clusterVars, localVars, monitorVars, lockVars, fileVars, balanceVars, serviceVars, healthVars>>
    \/ DeleteFileCall /\ UNCHANGED <<electVars, clusterVars, localVars, monitorVars, lockVars, fileVars, balanceVars, serviceVars, healthVars>>
    \/ ListFilesCall /\ UNCHANGED <<electVars, clusterVars, localVars, monitorVars, lockVars, fileVars, balanceVars, serviceVars, healthVars>>

SpecNode == InitNode /\ [][NextNode]_vars

(***************************************************************************)
(* Claims about the chunk service, checked under SpecNode.                 *)
(***************************************************************************)
LastIsStore == last.op = "StoreChunk"

LastStoreBadChecksum ==
    /\ last.op = "StoreChunk"
    /\ last.checksum # ""
    /\ last.checksum # computeChecksum(last.data)

NodeUnchanged == fileMap' = fileMap /\ disk' = disk

\* C3 as stated: a StoreChunk whose non-empty checksum differs from the digest
\* of its data fails with DATA_LOSS, success = false, and stores nothing.
C3_MismatchAlwaysDataLoss ==
    [][LastStoreBadChecksum' =>
          (last'.status = "DATA_LOSS" /\ ~last'.success /\ NodeUnchanged)]_vars

\* C3 amended: a StoreChunk that passes validation (non-empty filename and data,
\* chunk number >= 0) and carries a non-empty checksum differing from the digest
\* of its data fails with DATA_LOSS, success = false, and leaves the stored keys
\* and contents unchanged; in every case a mismatching request stores nothing.
C3_ValidMismatchDataLoss ==
    [][LastStoreBadChecksum' =>
          /\ ~last'.success
          /\ NodeUnchanged
          /\ validateRequest(last'.filename, last'.chunk_number, last'.data)
                => last'.status = "DATA_LOSS"]_vars

C3_Witness ==
    /\ LastStoreBadChecksum
    /\ last.status = "DATA_LOSS"
    /\ DOMAIN fileMap[ServiceNode] # {}

\* C4: a StoreChunk with an empty filename, empty data or a negative chunk
\* number fails with INVALID_ARGUMENT, success = false, whatever its checksum
\* and whatever the store would have done, and leaves keys and contents unchanged.
C4_InvalidRequestRejected ==
    [][(LastIsStore' /\ (last'.filename = "" \/ last'.data = <<>> \/ last'.chunk_number < 0)) =>
          (last'.status = "INVALID_ARGUMENT" /\ ~last'.success /\ NodeUnchanged)]_vars

C4_Witness ==
    /\ LastStoreBadChecksum
    /\ last.chunk_number < 0
    /\ last.filename # ""
    /\ last.data # <<>>
    /\ last.status = "INVALID_ARGUMENT"
    /\ DOMAIN fileMap[ServiceNode] # {}

\* What RetrieveChunk(f, n) would answer in the current state of the server.
Retrievable(f, n) == RetrieveChunkResult(fileMap[ServiceNode], disk[ServiceNode], f, n)

\* The step stores to, or deletes, the key that chunk n of f is kept under.
TouchesKey(f, n) ==
    \/ /\ last'.op = "StoreChunk"
       /\ StoreKey(last'.filename, last'.chunk_number) = StoreKey(f, n)
    \/ /\ last'.op = "DeleteFile"
       /\ last'.filename = StoreKey(f, n)

\* C5: after a successful StoreChunk(f, n, P, checksum(P)), RetrieveChunk(f, n)
\* succeeds with data P and checksum(P); what it answers changes only by a
\* delete or a store of that key; and every successful RetrieveChunk carries
\* the digest of the data it returns.
C5_StoreThenRetrieve ==
    /\ [][(LastIsStore' /\ last'.success /\ last'.checksum = computeChecksum(last'.data)) =>
             RetrieveChunkResult(fileMap'[ServiceNode], disk'[ServiceNode],
                                 last'.filename, last'.chunk_number) =
                 [status |-> "OK", success |-> TRUE, data |-> last'.data,
                  checksum |-> last'.checksum]]_vars
    /\ [][\A f \in FileNames \ {""}, n \in ChunkNumbers \ {-1} :
             ~TouchesKey(f, n) => (Retrievable(f, n))' = Retrievable(f, n)]_vars
    /\ [][last'.op = "RetrieveChunk" =>
             /\ last'.success = Retrievable(last'.filename, last'.chunk_number).success
             /\ last'.outData = Retrievable(last'.filename, last'.chunk_number).data
             /\ last'.success => last'.outChecksum = computeChecksum(last'.outData)]_vars

C5_Witness ==
    /\ last.op = "RetrieveChunk"
    /\ last.chunk_number = 1
    /\ last.success
    /\ last.outData = <<1, 1>>
    /\ last.outChecksum = computeChecksum(<<1, 1>>)

SameStoreRequest ==
    /\ last.op = "StoreChunk"
    /\ last'.op = "StoreChunk"
    /\ last'.filename = last.filename
    /\ last'.chunk_number = last.chunk_number
    /\ last'.data = last.data
    /\ last'.checksum = last.checksum

\* C6: repeating a successful StoreChunk with identical arguments changes
\* neither the stored keys nor their contents; after every successful
\* StoreChunk the derived key holds exactly the request's data, whatever it
\* held before.
C6_StoreIdempotent ==
    /\ [][(SameStoreRequest /\ last.success) => NodeUnchanged]_vars
    /\ [][(LastIsStore' /\ last'.success) =>
             LET key == StoreKey(last'.filename, last'.chunk_number)
             IN /\ key \in DOMAIN fileMap'[ServiceNode]
                /\ disk'[ServiceNode][fileMap'[ServiceNode][key]] = last'.data
                /\ DOMAIN fileMap'[ServiceNode] = DOMAIN fileMap[ServiceNode] \cup {key}
                /\ \A k \in DOMAIN fileMap[ServiceNode] \ {key} :
                       /\ fileMap'[ServiceNode][k] = fileMap[ServiceNode][k]
                       /\ disk'[ServiceNode][fileMap'[ServiceNode][k]]
                            = disk[ServiceNode][fileMap[ServiceNode][k]]]_vars

C6_Witness ==
    /\ last.op = "StoreChunk"
    /\ last.success
    /\ last.chunk_number = 1
    /\ Cardinality(DOMAIN fileMap[ServiceNode]) = 3
    /\ disk[ServiceNode][fileMap[ServiceNode][StoreKey(last.filename, 1)]] = last.data

(***************************************************************************)
(* Leader election: coordinator instances (FileSystemManager objects) on   *)
(* one coordination service.  /dfs/leader is an ephemeral key: it belongs  *)
(* to the session that created it and vanishes when that session ends.     *)
(***************************************************************************)
\* zoo_create of an ephemeral key: atomic create-if-absent, refused to a
\* caller whose session is not live.
createEphemeral(owner, caller, live) ==
    IF live /\ owner = NoOwner
    THEN [created |-> TRUE, owner |-> caller]
    ELSE [created |-> FALSE, owner |-> owner]

\* The constructor: FileSystemManager(config) runs initializeZookeeper. A null
\* handle throws and no object comes to be. Otherwise the three zoo_create
\* calls run and their results are dropped; ClusterState's isLeader and
\* currentTerm are left as they happen to be, leaderId is an empty string.
Construct(i, handleOk, flag, term) ==
    /\ i \notin DOMAIN epc
    /\ IF ~handleOk
       THEN /\ epc' = Put(epc, i, "failed")
            /\ UNCHANGED <<zkLeader, session, isLeader, currentTerm, leaderId>>
       ELSE /\ epc' = Put(epc, i, "elect")
            /\ session' = Put(session, i, "live")
            /\ zkLeader' = createEphemeral(zkLeader, i, TRUE).owner
            /\ isLeader' = Put(isLeader, i, flag)
            /\ currentTerm' = Put(currentTerm, i, term)
            /\ leaderId' = Put(leaderId, i, "")

\* becomeLeader: try to create the leadership key; on success the instance is
\* Leader and its term grows by one, otherwise it stays Follower and watches.
becomeLeader(i) ==
    LET r == createEphemeral(zkLeader, i, session[i] = "live")
    IN /\ zkLeader' = r.owner
       /\ IF r.created
          THEN /\ epc' = [epc EXCEPT ![i] = "leader"]
               /\ isLeader' = [isLeader EXCEPT ![i] = TRUE]
               /\ currentTerm' = [currentTerm EXCEPT ![i] = @ + 1]
               /\ leaderId' = [leaderId EXCEPT ![i] = i]
          ELSE /\ epc' = [epc EXCEPT ![i] = "follower"]
               /\ UNCHANGED <<isLeader, currentTerm, leaderId>>
       /\ UNCHANGED session

\* handleLeaderElection: the first attempt of an instance, and the attempt of
\* a watching Follower once the key has been removed.
handleLeaderElection(i) ==
    /\ i \in DOMAIN session
    /\ \/ epc[i] = "elect"
       \/ epc[i] = "follower" /\ zkLeader = NoOwner /\ session[i] = "live"
    /\ becomeLeader(i)

\* The coordination service ends a session: its ephemeral key vanishes. The
\* instance has not noticed yet.
SessionExpire(i) ==
    /\ i \in DOMAIN session
    /\ session[i] = "live"
    /\ session' = [session EXCEPT ![i] = "expired"]
    /\ zkLeader' = IF zkLeader = i THEN NoOwner ELSE zkLeader
    /\ UNCHANGED <<epc, isLeader, currentTerm, leaderId>>

\* stepDown: a Leader that learns of its lost session goes back to Follower.
stepDown(i) ==
    /\ i \in DOMAIN session
    /\ epc[i] = "leader"
    /\ session[i] = "expired"
    /\ epc' = [epc EXCEPT ![i] = "follower"]
    /\ isLeader' = [isLeader EXCEPT ![i] = FALSE]
    /\ UNCHANGED <<zkLeader, session, currentTerm, leaderId>>

InitElect == InitNodes /\ InitElectIdle /\ InitClusterIdle /\ InitLocalIdle /\ InitMonitorIdle /\ InitLockIdle /\ InitFilesIdle /\ InitBalanceIdle /\ InitServiceIdle /\ InitStatsIdle

ConstructCall ==
    \E i \in Coordinators, handleOk \in BOOLEAN, flag \in BOOLEAN, term \in IndeterminateInts :
        Construct(i, handleOk, flag, term)

ElectionCall == \E i \in Coordinators : handleLeaderElection(i)

SessionExpireEvent == \E i \in Coordinators : SessionExpire(i)

StepDownCall == \E i \in Coordinators : stepDown(i)

NextElect ==
    \/ ConstructCall /\ UNCHANGED <<nodeVars, clusterVars, localVars, monitorVars, lockVars, fileVars, balanceVars, serviceVars, healthVars>>
    \/ ElectionCall /\ UNCHANGED <<nodeVars, clusterVars, localVars, monitorVars, lockVars, fileVars, balanceVars, serviceVars, healthVars>>
    \/ SessionExpireEvent /\ UNCHANGED <<nodeVars, clusterVars, localVars, monitorVars, lockVars, fileVars, balanceVars, serviceVars, healthVars>>
    \/ StepDownCall /\ UNCHANGED <<nodeVars, clusterVars, localVars, monitorVars, lockVars, fileVars, balanceVars, serviceVars, healthVars>>

SpecElect == InitElect /\ [][NextElect]_vars

(***************************************************************************)
(* Claims about leader election, checked under SpecElect.                  *)
(***************************************************************************)
Leaders == {i \in DOMAIN epc : epc[i] = "leader"}

\* Every instance was built on the service, which did not hold the key before
\* the first of them tried; each has made its attempt; no session has ended.
RaceOver ==
    /\ DOMAIN session = Coordinators
    /\ \A i \in Coordinators : epc[i] \in {"follower", "leader"} /\ session[i] = "live"

\* C1: when the N instances have raced to create the leadership key on a
\* service that did not hold it, exactly one of them is Leader and all the
\* others are Follower.
C1_ExactlyOneLeader ==
    RaceOver =>
        /\ Cardinality(Leaders) = 1
        /\ \A i \in Coordinators \ Leaders : epc[i] = "follower"

\* C2: at most one instance has isLeader = true, and an instance has
\* isLeader = true only while it owns the leadership key.
C2_LeaderFlagExclusive ==
    /\ Cardinality({i \in DOMAIN isLeader : isLeader[i]}) <= 1
    /\ \A i \in DOMAIN isLeader : isLeader[i] => zkLeader = i

(***************************************************************************)
(* The cluster coordinator: FileSystemManager with its ClusterState, the   *)
(* NodeClient it holds for every tracked node, and the storage servers     *)
(* behind them.  Membership calls are one step each; a client call is one  *)
(* step per request it sends, so that membership calls and server outages  *)
(* fall between the requests of one writeFile or readFile.                 *)
(***************************************************************************)
ClusterFiles == {"a", "b"}

\* Payloads of no chunk, of one chunk and of more than one chunk.
Payloads == {[i \in 1..n |-> 1] : n \in {0, 1, MaxFileLen}}

\* CHUNK_SIZE of StorageNode::storeFile, scaled from 64 MiB to two bytes.
ChunkSize == 2

\* std::map iterates its keys in ascending order.
NodeOrder == <<"n1", "n2", "n3">>

Min(a, b) == IF a < b THEN a ELSE b

ChunkCount_RoundedDown(data) == Len(data) \div ChunkSize

\* chunks = (data.size() + CHUNK_SIZE - 1) / CHUNK_SIZE
ChunkCount(data) == (Len(data) + ChunkSize - 1) \div ChunkSize

ChunkOf(data, i) ==
    SubSeq(data, i * ChunkSize + 1, i * ChunkSize + Min(ChunkSize, Len(data) - i * ChunkSize))

\* A storeFile that goes on after a chunk that failed.
AfterChunk_SkipsFailed(sent, i, chunks) ==
    IF i + 1 = chunks THEN "return_true" ELSE "next_chunk"

\* storeFile's loop after chunk i: if (!sendChunk(...)) return false; the next
\* chunk; return true after the last one.
AfterChunk(sent, i, chunks) ==
    IF ~sent THEN "return_false"
    ELSE IF i + 1 = chunks THEN "return_true" ELSE "next_chunk"

\* One StoreChunk request of the client to server n; the client sends no checksum.
sendChunk(n, filename, chunk, i, ioOk) ==
    IF n \notin up
    THEN [success |-> FALSE, fileMap |-> fileMap[n], disk |-> disk[n]]
    ELSE LET r == StoreChunkResult(fileMap[n], disk[n], filename, i, chunk, "", ioOk)
         IN [success |-> r.success, fileMap |-> r.fileMap, disk |-> r.disk]

\* The client's retrieveFile: chunk 0 of the file, empty when the request fails.
remoteRetrieveFile(n, filename) ==
    IF n \notin up THEN <<>>
    ELSE RetrieveChunkResult(fileMap[n], disk[n], filename, 0).data

\* getNetworkStats().status == "healthy": the HealthCheck request was answered.
isNodeHealthy(n) == n \in up

updatePartitionMap(nd) ==
    SelectSeq(NodeOrder, LAMBDA n : n \in DOMAIN nd /\ nd[n] = "ptr" /\ isNodeHealthy(n))

hash_ByCalls(filename) == calls

\* The stable hash of a filename.
hash(filename) == IF filename = "a" THEN 0 ELSE 1

calculateDataPlacement(pm, rf, filename) ==
    IF pm = <<>>
    THEN [primaryNodes |-> <<>>, replicaNodes |-> <<>>]
    ELSE LET pos == hash(filename) % Len(pm)
         IN [primaryNodes |-> <<pm[pos + 1]>>,
             replicaNodes |-> [k \in 1..(rf - 1) |-> pm[((pos + k) % Len(pm)) + 1]]]

\* state.nodes[id] yields a usable node.
Tracked(id) == id \in DOMAIN nodes /\ nodes[id] = "ptr"

PlacementEmpty_Never(primaryNodes) == FALSE

\* placement.primaryNodes.empty()
PlacementEmpty(primaryNodes) == primaryNodes = <<>>

AfterPrimaryStore_Ignored(stored) == "replicate"

\* if (!primaryNode->storeFile(filename, data)) return false;
AfterPrimaryStore(stored) == IF stored THEN "replicate" ELSE "return_false"

WriteResult_NeedsReplication(replicated) == replicated

\* if (!ensureReplication(filename, data)) { warning } return true;
WriteResult(replicated) == TRUE

ServersUnchanged == UNCHANGED <<fileMap, disk>>
MembershipUnchanged == UNCHANGED <<nodes, partitionMap, zkNodes>>

\* state.nodes[id] of a missing id inserts a null pointer, and the call through
\* it ends the process.
NullDereference(id) ==
    /\ nodes' = Put(nodes, id, "null")
    /\ crashed' = TRUE
    /\ op' = [op EXCEPT !.pc = "crashed"]
    /\ ServersUnchanged
    /\ UNCHANGED <<partitionMap, zkNodes>>

Running(kind, pc) == ~crashed /\ op.kind = kind /\ op.pc = pc

BeginCall ==
    /\ ~crashed
    /\ op.pc \in {"idle", "done"}
    /\ calls' = calls + 1
    /\ prev' = [kind |-> op.kind, filename |-> op.filename, data |-> op.data,
                ok |-> op.ok, quiet |-> stable,
                primaryNodes |-> op.primaryNodes, replicaNodes |-> op.replicaNodes]
    /\ stable' = TRUE

\* writeFile up to its placement check.
writeFile(filename, data) ==
    /\ BeginCall
    /\ LET pl == calculateDataPlacement(partitionMap, config.replicationFactor, filename)
       IN op' = [NoOp EXCEPT !.kind = "write", !.filename = filename, !.data = data,
                             !.tracked = DOMAIN nodes,
                             !.primaryNodes = pl.primaryNodes,
                             !.replicaNodes = pl.replicaNodes,
                             !.pc = IF PlacementEmpty(pl.primaryNodes) THEN "done" ELSE "primary"]
    /\ ServersUnchanged /\ MembershipUnchanged
    /\ UNCHANGED <<config, zkSession, up, crashed, faults, changes>>

\* The write has left the primary: return false, or enter ensureReplication,
\* which places the file again and returns at once when there is no replica.
PrimaryStoreDone(stored) ==
    IF AfterPrimaryStore(stored) = "return_false"
    THEN [op EXCEPT !.primaryOk = stored, !.pc = "done", !.ok = FALSE]
    ELSE LET pl == calculateDataPlacement(partitionMap, config.replicationFactor, op.filename)
         IN IF pl.replicaNodes = <<>>
            THEN [op EXCEPT !.primaryOk = stored, !.replicaNodes = <<>>,
                            !.pc = "done", !.ok = WriteResult(TRUE)]
            ELSE [op EXCEPT !.primaryOk = stored, !.replicaNodes = pl.replicaNodes,
                            !.pc = "replicate", !.idx = 1, !.chunk = 0]

\* writeFile's store on the primary node, one chunk request at a time.
WritePrimary(ioOk) ==
    /\ Running("write", "primary")
    /\ UNCHANGED <<config, zkSession, up, prev, stable, calls, faults, changes, zkSession, admin>>
    /\ IF op.primaryNodes = <<>>
       THEN \* primaryNodes[0] of an empty vector
            /\ crashed' = TRUE
            /\ op' = [op EXCEPT !.pc = "crashed"]
            /\ ServersUnchanged /\ MembershipUnchanged
       ELSE IF op.chunk = 0 /\ ~Tracked(op.primaryNodes[1])
       THEN NullDereference(op.primaryNodes[1])
       ELSE /\ MembershipUnchanged /\ UNCHANGED crashed
            /\ IF ChunkCount(op.data) = 0
               THEN ServersUnchanged /\ op' = PrimaryStoreDone(TRUE)
               ELSE LET n == op.primaryNodes[1]
                        r == sendChunk(n, op.filename, ChunkOf(op.data, op.chunk), op.chunk, ioOk)
                    IN /\ fileMap' = [fileMap EXCEPT ![n] = r.fileMap]
                       /\ disk' = [disk EXCEPT ![n] = r.disk]
                       /\ op' = CASE AfterChunk(r.success, op.chunk, ChunkCount(op.data)) = "return_false"
                                       -> PrimaryStoreDone(FALSE)
                                  [] AfterChunk(r.success, op.chunk, ChunkCount(op.data)) = "return_true"
                                       -> PrimaryStoreDone(TRUE)
                                  [] OTHER -> [op EXCEPT !.chunk = op.chunk + 1]

\* ensureReplication has finished with one replica, having stored it or not.
ReplicaDone(o, stored) ==
    LET q == [o EXCEPT !.replOk = o.replOk /\ stored]
    IN IF q.idx = Len(q.replicaNodes)
       THEN [q EXCEPT !.pc = "done", !.ok = WriteResult(q.replOk)]
       ELSE [q EXCEPT !.idx = q.idx + 1, !.chunk = 0]

\* ensureReplication: the store on each replica node in turn.
ensureReplication(ioOk) ==
    /\ Running("write", "replicate")
    /\ UNCHANGED <<config, zkSession, up, prev, stable, calls, faults, changes, zkSession, admin>>
    /\ LET n == op.replicaNodes[op.idx]
       IN IF op.chunk = 0 /\ ~Tracked(n)
          THEN NullDereference(n)
          ELSE /\ MembershipUnchanged /\ UNCHANGED crashed
               /\ IF ChunkCount(op.data) = 0
                  THEN ServersUnchanged /\ op' = ReplicaDone(op, TRUE)
                  ELSE LET r == sendChunk(n, op.filename, ChunkOf(op.data, op.chunk), op.chunk, ioOk)
                           o == [op EXCEPT !.replSent = op.replSent + 1]
                       IN /\ fileMap' = [fileMap EXCEPT ![n] = r.fileMap]
                          /\ disk' = [disk EXCEPT ![n] = r.disk]
                          /\ op' = CASE AfterChunk(r.success, op.chunk, ChunkCount(op.data)) = "return_false"
                                          -> ReplicaDone(o, FALSE)
                                     [] AfterChunk(r.success, op.chunk, ChunkCount(op.data)) = "return_true"
                                          -> ReplicaDone(o, TRUE)
                                     [] OTHER -> [o EXCEPT !.chunk = op.chunk + 1]

ReadTargets_ReplicasFirst(o) == o.replicaNodes \o o.primaryNodes

\* The nodes readFile's two loops visit: primaryNodes, then replicaNodes.
ReadTargets(o) == o.primaryNodes \o o.replicaNodes

\* readFile up to its first lookup.
readFile(filename) ==
    /\ BeginCall
    /\ LET pl == calculateDataPlacement(partitionMap, config.replicationFactor, filename)
       IN op' = [NoOp EXCEPT !.kind = "read", !.filename = filename,
                             !.tracked = DOMAIN nodes,
                             !.primaryNodes = pl.primaryNodes,
                             !.replicaNodes = pl.replicaNodes,
                             !.idx = 1,
                             !.pc = IF ReadTargets(pl) = <<>> THEN "done" ELSE "read"]
    /\ ServersUnchanged /\ MembershipUnchanged
    /\ UNCHANGED <<config, zkSession, up, crashed, faults, changes>>

\* One iteration of readFile's loops: the primary nodes, then the replica nodes.
ReadNext ==
    /\ Running("read", "read")
    /\ UNCHANGED <<config, zkSession, up, prev, stable, calls, faults, changes, zkSession, admin>>
    /\ LET targets == ReadTargets(op)
           n == targets[op.idx]
       IN IF ~Tracked(n)
          THEN NullDereference(n)
          ELSE /\ MembershipUnchanged /\ UNCHANGED crashed /\ ServersUnchanged
               /\ LET data == remoteRetrieveFile(n, op.filename)
                      o == [op EXCEPT !.tried = Append(op.tried, n),
                                      !.reached = Append(op.reached, n \in up)]
                  IN op' = IF data # <<>>
                           THEN [o EXCEPT !.pc = "done", !.ok = TRUE, !.outData = data]
                           ELSE IF op.idx = Len(targets)
                           THEN [o EXCEPT !.pc = "done", !.outData = <<>>]
                           ELSE [o EXCEPT !.idx = op.idx + 1]

\* node->initialize(netConfig, storageConfig): the channel to the server is ready.
initialize(nodeId, initOk) == initOk /\ nodeId \in up

\* zoo_create of the ephemeral /dfs/nodes/<nodeId>.
zoo_create(nodeId, zkOk) ==
    IF zkSession = "live" /\ zkOk /\ nodeId \notin zkNodes THEN "ZOK" ELSE "error"

\* zoo_delete of /dfs/nodes/<nodeId>: the entries left in the service.
zoo_delete(nodeId, zkOk) ==
    IF zkSession = "live" /\ zkOk THEN zkNodes \ {nodeId} ELSE zkNodes

RegistrationFailed_Never(result) == FALSE

\* if (result != ZOK) return false;
RegistrationFailed(result) == result # "ZOK"

addStorageNodeReturns(nodeId, initOk, zkOk) ==
    initialize(nodeId, initOk) /\ ~RegistrationFailed(zoo_create(nodeId, zkOk))

addStorageNode(nodeId, initOk, zkOk) ==
    /\ ~crashed
    /\ UNCHANGED <<config, zkSession, up, crashed, op, prev, calls, faults>>
    /\ ServersUnchanged
    /\ IF ~initialize(nodeId, initOk)
       THEN MembershipUnchanged /\ UNCHANGED <<stable, changes>>
       ELSE LET result == zoo_create(nodeId, zkOk)
            IN /\ zkNodes' = IF result = "ZOK" THEN zkNodes \cup {nodeId} ELSE zkNodes
               /\ IF RegistrationFailed(result)
                  THEN UNCHANGED <<nodes, partitionMap, stable, changes>>
                  ELSE /\ nodes' = Put(nodes, nodeId, "ptr")
                       /\ partitionMap' = updatePartitionMap(nodes')
                       /\ stable' = FALSE
                       /\ changes' = changes + 1

FindNode_Always(nd, id) == TRUE

\* state.nodes.find(failedNodeId) != state.nodes.end()
FindNode(nd, id) == id \in DOMAIN nd

performFailoverReturns(failedNodeId) == FindNode(nodes, failedNodeId)

performFailover(failedNodeId, zkOk) ==
    /\ ~crashed
    /\ UNCHANGED <<config, zkSession, up, crashed, op, prev, calls, faults>>
    /\ ServersUnchanged
    /\ IF ~FindNode(nodes, failedNodeId)
       THEN MembershipUnchanged /\ UNCHANGED <<stable, changes>>
       ELSE /\ nodes' = Drop(nodes, failedNodeId)
            /\ zkNodes' = zoo_delete(failedNodeId, zkOk)
            /\ partitionMap' = updatePartitionMap(nodes')
            /\ stable' = FALSE
            /\ changes' = changes + 1

\* A storage server stops answering, or answers again.
ServerOutage(n) ==
    /\ faults' = faults + 1
    /\ up' = IF n \in up THEN up \ {n} ELSE up \cup {n}
    /\ ServersUnchanged /\ MembershipUnchanged
    /\ UNCHANGED <<config, zkSession, crashed, op, prev, stable, calls, changes>>

InitCluster ==
    /\ InitNodes /\ InitElectIdle /\ InitLocalIdle /\ InitMonitorIdle /\ InitLockIdle /\ InitFilesIdle /\ InitBalanceIdle /\ InitServiceIdle /\ InitStatsIdle
    /\ config \in ClusterConfigs
    /\ nodes = EmptyMap
    /\ partitionMap = <<>>
    /\ zkNodes = {}
    /\ up = NodeIds
    /\ crashed = FALSE
    /\ op = NoOp
    /\ prev = NoPrev
    /\ stable = TRUE
    /\ calls = 0
    /\ faults = 0
    /\ changes = 0
    /\ zkSession = "live"
    /\ admin = NoAdmin

WriteFileCall == calls < MaxCalls /\ \E f \in ClusterFiles, d \in Payloads : writeFile(f, d)
WritePrimaryStep == \E ioOk \in BOOLEAN : WritePrimary(ioOk)
ReplicationStep == \E ioOk \in BOOLEAN : ensureReplication(ioOk)
ReadFileCall == calls < MaxCalls /\ \E f \in ClusterFiles : readFile(f)
AddStorageNodeCall ==
    /\ changes < MaxChanges
    /\ \E n \in NodeIds, r \in {"init_failed", "create_failed", "ok"} :
           addStorageNode(n, r # "init_failed", r # "create_failed")
PerformFailoverCall == changes < MaxChanges /\ \E n \in NodeIds : performFailover(n, TRUE)
ServerOutageEvent == faults < MaxFaults /\ \E n \in NodeIds : ServerOutage(n)

NextCluster ==
    \/ WriteFileCall /\ UNCHANGED <<lockVars, fileVars, balanceVars, serviceVars, healthVars, monitorVars, localVars, last, electVars, admin>>
    \/ WritePrimaryStep /\ UNCHANGED <<lockVars, fileVars, balanceVars, serviceVars, healthVars, monitorVars, localVars, last, electVars, admin>>
    \/ ReplicationStep /\ UNCHANGED <<lockVars, fileVars, balanceVars, serviceVars, healthVars, monitorVars, localVars, last, electVars, admin>>
    \/ ReadFileCall /\ UNCHANGED <<lockVars, fileVars, balanceVars, serviceVars, healthVars, monitorVars, localVars, last, electVars, admin>>
    \/ ReadNext /\ UNCHANGED <<lockVars, fileVars, balanceVars, serviceVars, healthVars, monitorVars, localVars, last, electVars, admin>>
    \/ AddStorageNodeCall /\ UNCHANGED <<lockVars, fileVars, balanceVars, serviceVars, healthVars, monitorVars, localVars, last, electVars, admin>>
    \/ PerformFailoverCall /\ UNCHANGED <<lockVars, fileVars, balanceVars, serviceVars, healthVars, monitorVars, localVars, last, electVars, admin>>
    \/ ServerOutageEvent /\ UNCHANGED <<lockVars, fileVars, balanceVars, serviceVars, healthVars, monitorVars, localVars, last, electVars, admin>>

SpecCluster == InitCluster /\ [][NextCluster]_vars

(***************************************************************************)
(* Claims about writeFile and readFile, checked under SpecCluster.         *)
(***************************************************************************)
WriteReturned == op.kind = "write" /\ op.pc = "done"

\* C7: a writeFile that returns has returned true exactly when its placement
\* was non-empty and the store on the primary node succeeded, whatever became
\* of the replication; after a failed primary store no replica was sent
\* anything.
C7_WriteResult ==
    WriteReturned =>
        /\ op.ok <=> (op.primaryNodes # <<>> /\ op.primaryOk)
        /\ ~op.primaryOk => op.replSent = 0

\* writeFile returned true although the store on a replica failed.
C7_Witness ==
    /\ WriteReturned /\ op.ok /\ op.primaryOk
    /\ op.replSent > 0 /\ ~op.replOk

\* C8: within one writeFile, every store request sent to a replica node is
\* sent after the store on the primary node has completed successfully.
C8_PrimaryBeforeReplicas ==
    [][op'.replSent > op.replSent => op.kind = "write" /\ op.primaryOk]_vars

\* A replica has been sent a chunk of a file whose primary store took more
\* than one request.
C8_Witness ==
    /\ op.kind = "write" /\ op.replSent > 0 /\ op.primaryOk
    /\ ChunkCount(op.data) > 1

\* C9: a writeFile called while no storage node is tracked returns false in
\* that step, for every filename and data, and changes neither any server's
\* store nor ClusterState.
C9_EmptyClusterWriteFails ==
    [][(calls' = calls + 1 /\ op'.kind = "write" /\ DOMAIN nodes = {}) =>
           /\ op'.pc = "done" /\ ~op'.ok
           /\ UNCHANGED <<fileMap, disk>>
           /\ UNCHANGED <<nodes, partitionMap, leaderId, isLeader, currentTerm>>]_vars

\* A writeFile of a non-empty payload has returned false on the empty cluster.
C9_Witness ==
    /\ WriteReturned /\ ~op.ok
    /\ op.tracked = {} /\ op.data # <<>>
    /\ op.replSent = 0 /\ nodes = EmptyMap

\* A readFile has returned, the call before it was a writeFile of non-empty
\* data to the same file that returned true, and membership has not changed
\* since that writeFile began.
ReadAfterWrite ==
    /\ op.kind = "read" /\ op.pc = "done"
    /\ prev.kind = "write" /\ prev.ok /\ prev.filename = op.filename
    /\ prev.data # <<>>
    /\ prev.quiet /\ stable

\* C10 as stated: the readFile returns exactly the data written.
C10_RoundTrip == ReadAfterWrite => op.outData = prev.data

\* C10, amended: the readFile returns exactly the data written when the data
\* fits one chunk and the primary node answered the read.
C10_SingleChunkRoundTrip ==
    (/\ ReadAfterWrite
     /\ ChunkCount(prev.data) = 1
     /\ op.reached # <<>> /\ op.reached[1]) => op.outData = prev.data

\* One node, replicationFactor = 1: the data written has been read back.
C10_Witness ==
    /\ ReadAfterWrite /\ ChunkCount(prev.data) = 1
    /\ op.reached = <<TRUE>> /\ op.outData = prev.data
    /\ config.replicationFactor = 1 /\ Len(partitionMap) = 1

(***************************************************************************)
(* Membership and health of the cluster coordinator: the membership calls  *)
(* with what they return, the health query, server outages and the end of  *)
(* the coordinator's session, without client calls.                        *)
(***************************************************************************)
Range(s) == {s[i] : i \in DOMAIN s}

NetworkStatus_AlwaysHealthy(n) == "healthy"

\* getNetworkStats().status: status.ok() ? "healthy" : "unhealthy"
NetworkStatus(n) == IF n \in up THEN "healthy" ELSE "unhealthy"

getClusterStats(nd) ==
    [totalNodes |-> Cardinality(DOMAIN nd),
     healthyNodes |-> Cardinality({n \in DOMAIN nd : NetworkStatus(n) = "healthy"})]

validateClusterHealth(nd) == getClusterStats(nd).healthyNodes >= config.quorumSize

\* The record of a call that has returned.
Returned(call, id, result, detail, stats) ==
    [n |-> admin.n + 1, call |-> call, id |-> id, result |-> result, detail |-> detail,
     totalNodes |-> stats.totalNodes, healthyNodes |-> stats.healthyNodes,
     pcall |-> admin.call, pid |-> admin.id, presult |-> admin.result]

NoStats == [totalNodes |-> 0, healthyNodes |-> 0]

AddStorageNodeReturn ==
    /\ admin.n < MaxAdminCalls
    /\ \E n \in NodeIds, r \in {"init_failed", "create_failed", "ok"} :
          /\ addStorageNode(n, r # "init_failed", r # "create_failed")
          /\ admin' = Returned("addStorageNode", n,
                               addStorageNodeReturns(n, r # "init_failed", r # "create_failed"),
                               IF ~initialize(n, r # "init_failed") THEN "init" ELSE "create",
                               NoStats)

PerformFailoverReturn ==
    /\ admin.n < MaxAdminCalls
    /\ \E n \in NodeIds, zkOk \in BOOLEAN :
          /\ performFailover(n, zkOk)
          /\ admin' = Returned("performFailover", n, performFailoverReturns(n), "", NoStats)

\* validateClusterHealth over a getClusterStats pass; a null node ends the process.
ValidateClusterHealthCall ==
    /\ admin.n < MaxAdminCalls
    /\ ~crashed
    /\ ServersUnchanged /\ MembershipUnchanged
    /\ UNCHANGED <<config, zkSession, up, op, prev, stable, calls, faults, changes>>
    /\ IF \E n \in DOMAIN nodes : nodes[n] = "null"
       THEN crashed' = TRUE /\ UNCHANGED admin
       ELSE /\ UNCHANGED crashed
            /\ admin' = Returned("validateClusterHealth", "", validateClusterHealth(nodes),
                                 "", getClusterStats(nodes))

\* The coordinator's session ends and every ephemeral entry it created vanishes.
SessionLoss ==
    /\ zkSession = "live"
    /\ zkSession' = "expired"
    /\ zkNodes' = {}
    /\ ServersUnchanged
    /\ UNCHANGED <<config, nodes, partitionMap, up, crashed, op, prev, stable, calls, faults, changes>>

NextMembers ==
    \/ AddStorageNodeReturn /\ UNCHANGED <<lockVars, fileVars, balanceVars, serviceVars, healthVars, monitorVars, localVars, last, electVars>>
    \/ PerformFailoverReturn /\ UNCHANGED <<lockVars, fileVars, balanceVars, serviceVars, healthVars, monitorVars, localVars, last, electVars>>
    \/ ValidateClusterHealthCall /\ UNCHANGED <<lockVars, fileVars, balanceVars, serviceVars, healthVars, monitorVars, localVars, last, electVars>>
    \/ ServerOutageEvent /\ UNCHANGED <<lockVars, fileVars, balanceVars, serviceVars, healthVars, monitorVars, localVars, last, electVars, admin>>
    \/ SessionLoss /\ UNCHANGED <<lockVars, fileVars, balanceVars, serviceVars, healthVars, monitorVars, localVars, last, electVars, admin>>

SpecMembers == InitCluster /\ [][NextMembers]_vars

(***************************************************************************)
(* Claims about membership and health, checked under SpecMembers.          *)
(***************************************************************************)
HealthyNodes == {n \in DOMAIN nodes : n \in up}

QuorumLost == Cardinality(HealthyNodes) < config.quorumSize

\* This step is the return of the named call.
AdminStep(call) == admin'.n = admin.n + 1 /\ admin'.call = call

\* C12: while fewer than quorumSize nodes are healthy, addStorageNode reports
\* failure and changes neither ClusterState, the coordination service nor any
\* server's stored data.
C12_QuorumGate ==
    [][(QuorumLost /\ AdminStep("addStorageNode")) =>
           /\ ~admin'.result
           /\ UNCHANGED <<nodes, partitionMap, zkNodes, fileMap, disk>>]_vars

C14_FailoverRemoves ==
    [][(AdminStep("performFailover") /\ admin'.id \in DOMAIN nodes) =>
           /\ admin'.result
           /\ admin'.id \notin DOMAIN nodes'
           /\ admin'.id \notin Range(partitionMap')
           /\ admin'.id \notin zkNodes'
           /\ DOMAIN nodes' = DOMAIN nodes \ {admin'.id}
           /\ (Cardinality(HealthyNodes) = 3 /\ config.quorumSize = 2) =>
                  /\ getClusterStats(nodes') = [totalNodes |-> 2, healthyNodes |-> 2]
                  /\ validateClusterHealth(nodes')]_vars

\* C15: performFailover of an id that is not tracked returns false and leaves
\* ClusterState.nodes, partitionMap, the leader fields and the coordination
\* service's entries unchanged.
C15_FailoverUntrackedNoOp ==
    [][(AdminStep("performFailover") /\ admin'.id \notin DOMAIN nodes) =>
           /\ ~admin'.result
           /\ UNCHANGED <<nodes, partitionMap, zkNodes, zkLeader>>
           /\ UNCHANGED <<leaderId, isLeader, currentTerm>>]_vars

\* A second performFailover of the node just failed over has returned false.
C15_Witness ==
    /\ admin.call = "performFailover" /\ ~admin.result
    /\ admin.pcall = "performFailover" /\ admin.presult
    /\ admin.pid = admin.id

\* C17: an addStorageNode that returns false leaves ClusterState.nodes,
\* partitionMap and the coordination service's entries as they were; one that
\* returns true leaves the node registered, tracked and in partitionMap.
C17_AddAllOrNothing ==
    [][AdminStep("addStorageNode") =>
           IF admin'.result
           THEN /\ admin'.id \in zkNodes'
                /\ admin'.id \in DOMAIN nodes' /\ nodes'[admin'.id] = "ptr"
                /\ admin'.id \in Range(partitionMap')
           ELSE UNCHANGED <<nodes, partitionMap, zkNodes>>]_vars

\* An addStorageNode whose registration failed has returned false, and the
\* node is neither tracked nor registered.
C17_Witness ==
    /\ admin.call = "addStorageNode" /\ ~admin.result /\ admin.detail = "create"
    /\ admin.id \notin DOMAIN nodes /\ admin.id \notin zkNodes
    /\ admin.id \notin Range(partitionMap)

\* C18: a node id is tracked in ClusterState.nodes exactly when its entry
\* exists in the coordination service.
C18_MembershipMatchesService == DOMAIN nodes = zkNodes

(***************************************************************************)
(* Claims about readFile's order and about placement, under SpecCluster.   *)
(***************************************************************************)
PlacementOrder(o) == o.primaryNodes \o o.replicaNodes

\* C11: a readFile that does not end the process queries the primary node
\* first and then the replica nodes in placement order, returns the first
\* non-empty result without querying a later node, and returns empty exactly
\* when every node of the placement returned empty or failed.
C11_ReadOrder ==
    [][/\ (calls' = calls + 1 /\ op'.kind = "read") =>
              /\ op'.tried = <<>>
              /\ op'.pc = "done" <=> PlacementOrder(op') = <<>>
              /\ op'.pc = "done" => op'.outData = <<>>
       /\ (op.kind = "read" /\ op.pc = "read" /\ op' # op /\ op'.pc # "crashed") =>
              LET n == PlacementOrder(op)[Len(op.tried) + 1]
                  data == remoteRetrieveFile(n, op.filename)
              IN /\ op'.tried = Append(op.tried, n)
                 /\ data # <<>> => op'.pc = "done" /\ op'.outData = data
                 /\ (data = <<>> /\ Len(op'.tried) < Len(PlacementOrder(op))) => op'.pc = "read"
                 /\ (data = <<>> /\ Len(op'.tried) = Len(PlacementOrder(op))) =>
                        op'.pc = "done" /\ op'.outData = <<>>]_vars

\* A readFile has returned the primary node's data without querying the
\* replica node of its placement.
C11_Witness ==
    /\ op.kind = "read" /\ op.pc = "done" /\ op.outData # <<>>
    /\ Len(PlacementOrder(op)) = 2 /\ op.primaryNodes # op.replicaNodes
    /\ op.tried = op.primaryNodes

MaxRepairChanges == 3

AddStorageNodeStep ==
    /\ changes < MaxRepairChanges
    /\ \E n \in NodeIds, r \in {"init_failed", "create_failed", "ok"} :
           addStorageNode(n, r # "init_failed", r # "create_failed")
PerformFailoverStep ==
    changes < MaxRepairChanges /\ \E n \in NodeIds, zkOk \in BOOLEAN : performFailover(n, zkOk)

NextRepair ==
    \/ WriteFileCall /\ UNCHANGED <<lockVars, fileVars, balanceVars, serviceVars, healthVars, monitorVars, localVars, last, electVars, admin>>
    \/ WritePrimaryStep /\ UNCHANGED <<lockVars, fileVars, balanceVars, serviceVars, healthVars, monitorVars, localVars, last, electVars, admin>>
    \/ ReplicationStep /\ UNCHANGED <<lockVars, fileVars, balanceVars, serviceVars, healthVars, monitorVars, localVars, last, electVars, admin>>
    \/ AddStorageNodeStep /\ UNCHANGED <<lockVars, fileVars, balanceVars, serviceVars, healthVars, monitorVars, localVars, last, electVars, admin>>
    \/ PerformFailoverStep /\ UNCHANGED <<lockVars, fileVars, balanceVars, serviceVars, healthVars, monitorVars, localVars, last, electVars, admin>>

\* The steps of a call that has begun; when a client or an operator makes
\* the next call is up to them.
CallInProgress ==
    (WritePrimaryStep \/ ReplicationStep) /\ UNCHANGED <<lockVars, fileVars, balanceVars, serviceVars, healthVars, monitorVars, localVars, last, electVars, admin>>

SpecRepair == InitCluster /\ [][NextRepair]_vars /\ WF_vars(CallInProgress)

\* A node that holds a copy of f is no longer a member: only performFailover
\* removes a member.
FailedOverHolder(f) ==
    \E n \in NodeIds \ DOMAIN nodes : f \in DOMAIN fileMap[n]

\* Every node of f's placement, as computed now, holds a copy of f.
FullyReplicated(f) ==
    LET pl == calculateDataPlacement(partitionMap, config.replicationFactor, f)
    IN \A n \in Range(pl.primaryNodes \o pl.replicaNodes) : f \in DOMAIN fileMap[n]

\* C16: once performFailover has removed a node that held a copy of a file,
\* the file eventually has a copy on every node of its recomputed placement.
C16_FailoverRepairs ==
    \A f \in ClusterFiles : FailedOverHolder(f) ~> FullyReplicated(f)

(***************************************************************************)
(* The single-process manager of FileSystemManager.cpp: a list of storage  *)
(* nodes, each a directory.  The file defines addStorageNode twice, once   *)
(* with a search for the node id and once without; a build keeps one.      *)
(***************************************************************************)
MaxLocalNodes == 3

LocalPaths == {"/d1", "/d2"}

Builds == {"first", "second"}

\* std::find_if over nodes on getNodeId() == nodeId
HasNodeId(list, nodeId) == \E i \in DOMAIN list : list[i].nodeId = nodeId

\* addStorageNode(nodeId, path); dirOk: the node's directory can be created.
addLocalStorageNode(nodeId, path, dirOk) ==
    /\ UNCHANGED build
    /\ IF build = "first" /\ HasNodeId(nodeList, nodeId)
       THEN thrown' = "Node ID already exists" /\ UNCHANGED nodeList
       ELSE IF ~dirOk
       THEN /\ thrown' = IF build = "first" THEN "Failed to add storage node"
                                            ELSE "Failed to create or access storage directory"
            /\ UNCHANGED nodeList
       ELSE /\ nodeList' = Append(nodeList, [nodeId |-> nodeId, basePath |-> path])
            /\ thrown' = ""

InitLocal ==
    /\ InitNodes /\ InitElectIdle /\ InitClusterIdle /\ InitMonitorIdle /\ InitLockIdle /\ InitFilesIdle /\ InitBalanceIdle /\ InitServiceIdle /\ InitStatsIdle
    /\ nodeList = <<>>
    /\ build \in Builds
    /\ thrown = ""

AddLocalStorageNodeCall ==
    /\ Len(nodeList) < MaxLocalNodes
    /\ \E n \in NodeIds, p \in LocalPaths, dirOk \in BOOLEAN : addLocalStorageNode(n, p, dirOk)

NextLocal == AddLocalStorageNodeCall /\ UNCHANGED <<nodeVars, electVars, clusterVars, monitorVars, lockVars, fileVars, balanceVars, serviceVars, healthVars>>

SpecLocal == InitLocal /\ [][NextLocal]_vars

\* C19: adding a node whose id is already a member is rejected with an
\* already-exists error and the list keeps its records, so each node id
\* identifies exactly one node of the list.
C19_DuplicateRejected ==
    \A i, j \in DOMAIN nodeList : nodeList[i].nodeId = nodeList[j].nodeId => i = j

(***************************************************************************)
(* Claims about placement and the partition map, checked under SpecCluster.*)
(***************************************************************************)
\* The placement of f as the coordinator computes it now.
PlacementNow(f) == calculateDataPlacement(partitionMap, config.replicationFactor, f)

\* C21: the primary of a file is the partitionMap entry at the position its
\* name hashes to and the replicas are the next replicationFactor - 1 entries,
\* wrapping around; every id of a placement is an entry of partitionMap; and
\* partitionMap holds exactly the tracked node ids that are healthy now.
C21_PlacementFromHealthyNodes ==
    /\ \A f \in ClusterFiles :
          LET pl == PlacementNow(f)
              ids == pl.primaryNodes \o pl.replicaNodes
          IN /\ Range(ids) \subseteq Range(partitionMap)
             /\ partitionMap # <<>> =>
                   /\ Len(ids) = config.replicationFactor
                   /\ \A k \in 1..Len(ids) :
                         ids[k] = partitionMap[((hash(f) + k - 1) % Len(partitionMap)) + 1]
    /\ Range(partitionMap) = HealthyNodes

(***************************************************************************)
(* The health monitor: monitorClusterHealth collects the tracked nodes     *)
(* that fail isNodeHealthy while it holds the lock, then hands each to     *)
(* handleNodeFailure, then sleeps and starts again.                        *)
(***************************************************************************)
UnhealthyNodes_None(nd) == <<>>

\* for (const auto &[nodeId, node] : state.nodes) if (!isNodeHealthy(node)) ...
UnhealthyNodes(nd) == SelectSeq(NodeOrder, LAMBDA n : n \in DOMAIN nd /\ ~isNodeHealthy(n))

\* handleNodeFailure(nodeId): the node is passed to performFailover.
handleNodeFailure(nodeId, zkOk) == performFailover(nodeId, zkOk)

\* One pass over state.nodes.
MonitorProbe ==
    /\ mon.pc = "probe"
    /\ ~crashed
    /\ LET found == UnhealthyNodes(nodes)
       IN mon' = [pc |-> IF found = <<>> THEN "probe" ELSE "handle", unhealthyNodes |-> found]
    /\ ServersUnchanged /\ MembershipUnchanged
    /\ UNCHANGED <<config, zkSession, up, crashed, op, prev, stable, calls, faults, changes>>

\* One iteration of the loop over unhealthyNodes.
MonitorHandle ==
    /\ mon.pc = "handle"
    /\ \E zkOk \in BOOLEAN : handleNodeFailure(Head(mon.unhealthyNodes), zkOk)
    /\ LET rest == Tail(mon.unhealthyNodes)
       IN mon' = [pc |-> IF rest = <<>> THEN "probe" ELSE "handle", unhealthyNodes |-> rest]

MaxMonitorFaults == 3

ServerOutageStep == faults < MaxMonitorFaults /\ \E n \in NodeIds : ServerOutage(n)

MonitorLoop ==
    (MonitorProbe \/ MonitorHandle) /\ UNCHANGED <<lockVars, fileVars, balanceVars, serviceVars, healthVars, localVars, last, electVars, admin>>

NextMonitor ==
    \/ AddStorageNodeStep /\ UNCHANGED <<lockVars, fileVars, balanceVars, serviceVars, healthVars, monitorVars, localVars, last, electVars, admin>>
    \/ ServerOutageStep /\ UNCHANGED <<lockVars, fileVars, balanceVars, serviceVars, healthVars, monitorVars, localVars, last, electVars, admin>>
    \/ MonitorProbe /\ UNCHANGED <<lockVars, fileVars, balanceVars, serviceVars, healthVars, localVars, last, electVars, admin>>
    \/ MonitorHandle /\ UNCHANGED <<lockVars, fileVars, balanceVars, serviceVars, healthVars, localVars, last, electVars, admin>>

SpecMonitor == InitCluster /\ [][NextMonitor]_vars /\ WF_vars(MonitorLoop)

\* This step is the monitor removing node n.
MonitorRemoves(n) ==
    /\ mon.pc = "handle" /\ mon' # mon
    /\ n \in DOMAIN nodes /\ n \notin DOMAIN nodes'

BecomesLeader(i) == i \in DOMAIN epc /\ epc[i] # "leader" /\ epc'[i] = "leader"

\* Instance i is Leader or was: becomeLeader set its leaderId to itself, and
\* its currentTerm is the term of its latest leadership.
HasLed(i) == i \in DOMAIN leaderId /\ leaderId[i] = i

\* C23: the term of an instance never decreases, it grows by one when the
\* instance becomes Leader, and no two leaderships carry the same term.
C23_TermGrows ==
    [][/\ \A i \in DOMAIN currentTerm :
             /\ currentTerm'[i] >= currentTerm[i]
             /\ BecomesLeader(i) => currentTerm'[i] = currentTerm[i] + 1
       /\ \A i, j \in Coordinators :
             (i # j /\ HasLed(i)' /\ HasLed(j)') => currentTerm'[i] # currentTerm'[j]]_vars

(***************************************************************************)
(* Client calls of a coordinator whose session with the coordination       *)
(* service ends while they run.  The calls begin while the session is      *)
(* live; their later steps and the end of the session interleave.          *)
(***************************************************************************)
SessionLive == zkSession = "live"

NextSession ==
    \/ SessionLive /\ WriteFileCall /\ UNCHANGED <<lockVars, fileVars, balanceVars, serviceVars, healthVars, monitorVars, localVars, last, electVars, admin>>
    \/ SessionLive /\ ReadFileCall /\ UNCHANGED <<lockVars, fileVars, balanceVars, serviceVars, healthVars, monitorVars, localVars, last, electVars, admin>>
    \/ WritePrimaryStep /\ UNCHANGED <<lockVars, fileVars, balanceVars, serviceVars, healthVars, monitorVars, localVars, last, electVars, admin>>
    \/ ReplicationStep /\ UNCHANGED <<lockVars, fileVars, balanceVars, serviceVars, healthVars, monitorVars, localVars, last, electVars, admin>>
    \/ ReadNext /\ UNCHANGED <<lockVars, fileVars, balanceVars, serviceVars, healthVars, monitorVars, localVars, last, electVars, admin>>
    \/ AddStorageNodeCall /\ UNCHANGED <<lockVars, fileVars, balanceVars, serviceVars, healthVars, monitorVars, localVars, last, electVars, admin>>
    \/ SessionLoss /\ UNCHANGED <<lockVars, fileVars, balanceVars, serviceVars, healthVars, monitorVars, localVars, last, electVars, admin>>

SpecSession == InitCluster /\ [][NextSession]_vars

\* A client call is between its first step and its return.
InFlight == op.pc \in {"primary", "replicate", "read"}

\* C24: a call that is in flight when the coordinator's session has been
\* lost fails: it does not return success under the leadership that ended.
C24_InFlightFails ==
    [][(InFlight /\ ~SessionLive /\ op'.pc = "done") => ~op'.ok]_vars

(***************************************************************************)
(* Claims about DeleteFile, checked under SpecNode.                        *)
(***************************************************************************)
LastIsDelete == last.op = "DeleteFile"

Held(f) == f \in DOMAIN fileMap[ServiceNode]

HeldAfter(f) == f \in DOMAIN fileMap'[ServiceNode]

\* What a successful DeleteFile leaves behind: the key is gone, it is not
\* listed, RetrieveChunk(f, 0) does not find it, and the other keys stay.
DeletedCleanly(f) ==
    /\ Held(f) /\ ~HeldAfter(f)
    /\ f \notin listFiles(fileMap'[ServiceNode])
    /\ ~RetrieveChunkResult(fileMap'[ServiceNode], disk'[ServiceNode], f, 0).success
    /\ DOMAIN fileMap'[ServiceNode] = DOMAIN fileMap[ServiceNode] \ {f}

\* C25 as stated: DeleteFile(f) answers success exactly when the key f was
\* held and has been removed; for every key the node does not hold it answers
\* success = false with status OK and changes nothing.
C25_DeleteMissingIsOk ==
    [][LastIsDelete' =>
          /\ last'.success <=> (Held(last'.filename) /\ ~HeldAfter(last'.filename))
          /\ last'.success => DeletedCleanly(last'.filename)
          /\ ~Held(last'.filename) =>
                (~last'.success /\ last'.status = "OK" /\ NodeUnchanged)]_vars

\* C25 amended: the same, except that an empty filename is refused with
\* INVALID_ARGUMENT; the OK status with success = false is for a non-empty key
\* the node does not hold.
C25_DeleteResult ==
    [][LastIsDelete' =>
          /\ last'.success <=> (Held(last'.filename) /\ ~HeldAfter(last'.filename))
          /\ last'.success => DeletedCleanly(last'.filename)
          /\ ~Held(last'.filename) =>
                /\ ~last'.success /\ NodeUnchanged
                /\ last'.status = IF last'.filename = "" THEN "INVALID_ARGUMENT" ELSE "OK"]_vars

\* A key that was stored has been deleted, one other key staying behind.
C25_Witness ==
    /\ LastIsDelete /\ last.success /\ last.status = "OK"
    /\ ~Held(last.filename)
    /\ Cardinality(DOMAIN fileMap[ServiceNode]) = 1

(***************************************************************************)
(* Claims about the client's storeFile, checked under SpecCluster on the   *)
(* store that writeFile makes on the primary node.                         *)
(***************************************************************************)
\* Server n holds chunk k of the file of the call in progress.
HoldsChunkAfter(n, k) ==
    LET key == StoreKey(op.filename, k)
    IN /\ key \in DOMAIN fileMap'[n]
       /\ disk'[n][fileMap'[n][key]] = ChunkOf(op.data, k)

\* This step is one iteration of storeFile's loop on the primary node.
StoreFileStep == op.kind = "write" /\ op.pc = "primary" /\ op' # op /\ ~crashed'

\* C26: storeFile sends chunk 0 first and one chunk at a time in increasing
\* number; at the first chunk that fails it returns false, having sent no
\* later chunk and removed nothing; it returns true only when the server
\* holds every chunk.
C26_StoreFileChunks ==
    [][/\ (op.pc # "primary" /\ op'.pc = "primary") => op'.chunk = 0
       /\ StoreFileStep =>
             LET n == op.primaryNodes[1]
             IN /\ op'.pc = "primary" =>
                      (op'.chunk = op.chunk + 1 /\ HoldsChunkAfter(n, op.chunk))
                /\ (op'.pc # "primary" /\ ~op'.primaryOk) =>
                      /\ op'.pc = "done" /\ ~op'.ok
                      /\ op'.chunk = op.chunk
                      /\ NodeUnchanged
                /\ op'.primaryOk =>
                      \A k \in 0..(ChunkCount(op.data) - 1) : HoldsChunkAfter(n, k)]_vars

\* storeFile failed on its second chunk and the first chunk is still stored.
C26_Witness ==
    /\ op.kind = "write" /\ op.pc = "done" /\ ~op.ok /\ ~op.primaryOk
    /\ op.chunk = 1
    /\ op.filename \in DOMAIN fileMap[op.primaryNodes[1]]
    /\ StoreKey(op.filename, 1) \notin DOMAIN fileMap[op.primaryNodes[1]]

(***************************************************************************)
(* Claims about failures of storage nodes during client calls, checked     *)
(* under SpecCluster.                                                      *)
(***************************************************************************)
\* The nodes the call in progress or just returned has sent a request to.
TriedNodes ==
    IF op.kind = "read" THEN Range(op.tried)
    ELSE IF op.kind = "write" /\ op.pc \in {"replicate", "done"}
    THEN Range(op.primaryNodes)
           \cup {op.replicaNodes[k] : k \in 1..(IF op.replSent > 0 THEN op.idx ELSE 0)}
    ELSE {}

CallFailed == op.pc = "done" /\ ~op.ok /\ op.primaryNodes # <<>>

\* C27: a writeFile or readFile reports failure only after it has tried every
\* node of the file's placement.
C27_AllNodesTried ==
    CallFailed => Range(op.primaryNodes \o op.replicaNodes) \subseteq TriedNodes

\* The same for readFile alone.
ReadTriesAllNodes ==
    (CallFailed /\ op.kind = "read") =>
        Range(op.primaryNodes \o op.replicaNodes) \subseteq TriedNodes

(***************************************************************************)
(* A coordinator configured with consistencyLevel "strong".                *)
(***************************************************************************)
StrongConfigs ==
    [replicationFactor : 1..MaxReplicationFactor, quorumSize : 1..MaxQuorumSize,
     consistencyLevel : {"strong"}]

InitStrong ==
    /\ InitNodes /\ InitElectIdle /\ InitLocalIdle /\ InitMonitorIdle /\ InitLockIdle /\ InitFilesIdle /\ InitBalanceIdle /\ InitServiceIdle /\ InitStatsIdle
    /\ config \in StrongConfigs
    /\ nodes = EmptyMap
    /\ partitionMap = <<>>
    /\ zkNodes = {}
    /\ up = NodeIds
    /\ crashed = FALSE
    /\ op = NoOp
    /\ prev = NoPrev
    /\ stable = TRUE
    /\ calls = 0
    /\ faults = 0
    /\ changes = 0
    /\ zkSession = "live"
    /\ admin = NoAdmin

NextStrong ==
    \/ WriteFileCall /\ UNCHANGED <<lockVars, fileVars, balanceVars, serviceVars, healthVars, monitorVars, localVars, last, electVars, admin>>
    \/ WritePrimaryStep /\ UNCHANGED <<lockVars, fileVars, balanceVars, serviceVars, healthVars, monitorVars, localVars, last, electVars, admin>>
    \/ ReplicationStep /\ UNCHANGED <<lockVars, fileVars, balanceVars, serviceVars, healthVars, monitorVars, localVars, last, electVars, admin>>
    \/ AddStorageNodeCall /\ UNCHANGED <<lockVars, fileVars, balanceVars, serviceVars, healthVars, monitorVars, localVars, last, electVars, admin>>
    \/ ServerOutageEvent /\ UNCHANGED <<lockVars, fileVars, balanceVars, serviceVars, healthVars, monitorVars, localVars, last, electVars, admin>>

SpecStrong == InitStrong /\ [][NextStrong]_vars

\* Server n holds every chunk of the file the call has written.
HoldsWritten(n) ==
    \A k \in 0..(ChunkCount(op.data) - 1) :
        LET key == StoreKey(op.filename, k)
        IN key \in DOMAIN fileMap[n] /\ disk[n][fileMap[n][key]] = ChunkOf(op.data, k)

\* The nodes of the placement that can have acknowledged the write.
Acknowledged == {n \in Range(op.primaryNodes \o op.replicaNodes) : HoldsWritten(n)}

\* C28: with consistencyLevel strong a writeFile that reports success has
\* been acknowledged by at least quorumSize nodes of the placement.
C28_StrongWriteQuorum ==
    (config.consistencyLevel = "strong" /\ WriteReturned /\ op.ok /\ op.data # <<>>) =>
        Cardinality(Acknowledged) >= config.quorumSize

(***************************************************************************)
(* The threads of one coordinator and stateMutex.  Each public operation   *)
(* runs on a thread of its own; its statements that take or release the    *)
(* lock, touch ClusterState or wait for a remote answer are listed in      *)
(* program order with their line in FileSystemManager.h.  A thread is at   *)
(* the statement it is executing; "ret" marks a statement after which the  *)
(* operation may return early.  A function that is only declared is a      *)
(* "call": nothing is assumed about what it touches.                       *)
(***************************************************************************)
I(kind, line, ret) == [kind |-> kind, line |-> line, ret |-> ret]

\* state.nodes[id] is std::map::operator[], which inserts a missing id: a write.
Program(t) ==
    CASE t = "addStorageNode" ->
           <<I("rpc", 162, TRUE), I("zk", 171, TRUE), I("lock", 182, FALSE),
             I("write", 183, FALSE), I("unlock", 184, FALSE), I("call", 187, FALSE)>>
      [] t = "writeFile" ->
           <<I("call", 202, TRUE), I("write", 210, FALSE), I("rpc", 211, TRUE),
             I("call", 217, FALSE)>>
      [] t = "readFile" ->
           <<I("call", 228, FALSE), I("write", 233, FALSE), I("rpc", 234, TRUE),
             I("write", 243, FALSE), I("rpc", 244, FALSE)>>
      [] t = "getClusterStats" ->
           <<I("read", 291, FALSE), I("read", 297, FALSE), I("rpc", 299, FALSE),
             I("read", 311, FALSE)>>
      [] t = "monitorClusterHealth" ->
           <<I("lock", 260, FALSE), I("read", 261, FALSE), I("call", 263, FALSE),
             I("unlock", 268, FALSE), I("call", 273, FALSE), I("read", 277, FALSE)>>
      [] t = "performFailover" ->
           <<I("lock", 368, FALSE), I("read", 370, TRUE), I("write", 377, FALSE),
             I("zk", 381, FALSE), I("call", 384, FALSE), I("unlock", 389, FALSE)>>
      [] t = "rebalanceCluster" ->
           <<I("lock", 321, FALSE), I("read", 325, FALSE), I("rpc", 327, FALSE),
             I("read", 335, FALSE), I("rpc", 337, FALSE), I("write", 354, FALSE),
             I("rpc", 355, FALSE), I("unlock", 364, FALSE)>>

At(t) == Program(t)[stmt[t]]

\* The operation is called.
Start(t) ==
    /\ stmt[t] = 0
    /\ stmt' = [stmt EXCEPT ![t] = 1]
    /\ UNCHANGED lock

\* The statement the thread is at completes; a lock_guard waits for the lock.
Step(t) ==
    /\ stmt[t] > 0
    /\ At(t).kind = "lock" => lock = NoOwner
    /\ lock' = CASE At(t).kind = "lock" -> t
                 [] At(t).kind = "unlock" -> NoOwner
                 [] OTHER -> lock
    /\ stmt' = [stmt EXCEPT ![t] = IF stmt[t] = Len(Program(t)) THEN 0 ELSE stmt[t] + 1]

\* The operation returns after the statement it is at; a lock_guard in scope
\* releases the lock.
Return(t) ==
    /\ stmt[t] > 0
    /\ At(t).ret
    /\ stmt' = [stmt EXCEPT ![t] = 0]
    /\ lock' = IF lock = t THEN NoOwner ELSE lock

NextLock ==
    \/ \E t \in Threads : Start(t) /\ UNCHANGED <<nodeVars, electVars, clusterVars, localVars, monitorVars, healthVars, serviceVars, balanceVars, fileVars>>
    \/ \E t \in Threads : Step(t) /\ UNCHANGED <<nodeVars, electVars, clusterVars, localVars, monitorVars, healthVars, serviceVars, balanceVars, fileVars>>
    \/ \E t \in Threads : Return(t) /\ UNCHANGED <<nodeVars, electVars, clusterVars, localVars, monitorVars, healthVars, serviceVars, balanceVars, fileVars>>

SpecLock == InitNode /\ [][NextLock]_vars

\* The thread is reading or writing nodes or partitionMap of ClusterState.
Accessing(t) == stmt[t] > 0 /\ At(t).kind \in {"read", "write"}

Mutating(t) == stmt[t] > 0 /\ At(t).kind = "write"

\* The thread waits for a storage node or for the coordination service.
InNetworkCall(t) == stmt[t] > 0 /\ At(t).kind \in {"rpc", "zk"}

\* C29: a thread reads or writes ClusterState only while it holds the state
\* lock, and no thread reads nodes while another one mutates it.
C29_StateUnderLock ==
    /\ \A t \in Threads : Accessing(t) => lock = t
    /\ \A t, u \in Threads : (t # u /\ Accessing(t)) => ~Mutating(u)

\* C30: no thread holds the state lock while it waits for a storage node or
\* for the coordination service.
C30_NoLockAcrossNetwork ==
    \A t \in Threads : InNetworkCall(t) => lock # t

(***************************************************************************)
(* Claims about the nodes a client call takes from its placement, checked  *)
(* under SpecCluster.                                                      *)
(***************************************************************************)
\* A client call has evaluated state.nodes[id] for an id that was not a key.
UsedMissingNode == crashed \/ op.pc = "crashed"

\* An entry of state.nodes that no addStorageNode put there.
InsertedEntries == {id \in DOMAIN nodes : nodes[id] # "ptr"}

\* C31: every node id writeFile or readFile takes from its placement is a key
\* of state.nodes with a live node when it is used, also when performFailover
\* removed the node after the placement was computed: no client call uses a
\* missing (null) node and none inserts an entry into state.nodes.
C31_PlacedNodesLive == ~UsedMissingNode /\ InsertedEntries = {}

(***************************************************************************)
(* Waiting for stateMutex.  updatePartitionMap is declared only; it writes *)
(* partitionMap, which the specification has written only while the state  *)
(* lock is held, and addStorageNode calls it after its lock_guard block    *)
(* ended, so it takes the lock itself.  std::mutex is not recursive: a     *)
(* lock() by the thread that owns it is undefined behaviour, which builds  *)
(* turn into waiting forever or into a std::system_error thrown by lock(). *)
(***************************************************************************)
MaxStarts == 3

LockingThreads ==
    {"addStorageNode", "performFailover", "rebalanceCluster", "monitorClusterHealth"}

\* The thread's operation ended with an exception instead of returning.
Threw == 0 - 1

\* updatePartitionMap(), called at the given line: lock, rebuild, unlock.
\* After it the caller may return (addStorageNode with enableAutoRebalancing off).
updatePartitionMapBody(line, ret) ==
    <<I("lock", line, FALSE), I("write", line, FALSE), I("unlock", line, ret)>>

\* The statements of an operation with the bodies of its callees in place.
Body(t) ==
    CASE t = "addStorageNode" ->
           SubSeq(Program(t), 1, 5) \o updatePartitionMapBody(187, TRUE)
             \o Program("rebalanceCluster")
      [] t = "performFailover" ->
           SubSeq(Program(t), 1, 4) \o updatePartitionMapBody(384, FALSE)
             \o SubSeq(Program(t), 6, 6)
      [] OTHER -> Program(t)

AtBody(t) == Body(t)[stmt[t]]

\* The lock_guard scopes the thread is inside of: locks taken less locks released.
HeldBefore(t, k) ==
    Cardinality({j \in 1..(k - 1) : Body(t)[j].kind = "lock"})
      - Cardinality({j \in 1..(k - 1) : Body(t)[j].kind = "unlock"})

StartBody(t) ==
    /\ calls < MaxStarts
    /\ stmt[t] = 0
    /\ stmt' = [stmt EXCEPT ![t] = 1]
    /\ calls' = calls + 1
    /\ UNCHANGED lock

\* The statement the thread is at completes; lock() returns only when no thread
\* owns the mutex, the caller included.
StepBody(t) ==
    /\ stmt[t] > 0
    /\ AtBody(t).kind = "lock" => lock = NoOwner
    /\ lock' = CASE AtBody(t).kind = "lock" -> t
                 [] AtBody(t).kind = "unlock" /\ HeldBefore(t, stmt[t]) = 1 -> NoOwner
                 [] OTHER -> lock
    /\ stmt' = [stmt EXCEPT ![t] = IF stmt[t] = Len(Body(t)) THEN 0 ELSE stmt[t] + 1]
    /\ UNCHANGED calls

ReturnBody(t) ==
    /\ stmt[t] > 0
    /\ AtBody(t).ret
    /\ stmt' = [stmt EXCEPT ![t] = 0]
    /\ lock' = IF lock = t THEN NoOwner ELSE lock
    /\ UNCHANGED calls

\* lock() on the mutex the thread owns reports the deadlock: the exception
\* leaves the operation and the enclosing lock_guard releases the mutex.
RelockThrows(t) ==
    /\ stmt[t] > 0
    /\ AtBody(t).kind = "lock"
    /\ lock = t
    /\ stmt' = [stmt EXCEPT ![t] = Threw]
    /\ lock' = NoOwner
    /\ UNCHANGED calls

Others == <<fileMap, disk, last, electVars, localVars, monitorVars,
            config, nodes, partitionMap, zkNodes, up, crashed, op, prev, stable,
            faults, changes, zkSession, admin, healthVars, serviceVars, balanceVars, fileVars>>

NextWait ==
    \/ \E t \in LockingThreads : StartBody(t) /\ UNCHANGED Others
    \/ \E t \in LockingThreads : StepBody(t) /\ UNCHANGED Others
    \/ \E t \in LockingThreads : ReturnBody(t) /\ UNCHANGED Others
    \/ \E t \in LockingThreads : RelockThrows(t) /\ UNCHANGED Others

\* A statement that can complete does complete: remote calls return, and a
\* thread is scheduled.  Nothing is assumed about a lock() by the owner.
Progress(t) == StepBody(t) /\ UNCHANGED Others

SpecWait ==
    /\ InitNode
    /\ [][NextWait]_vars
    /\ \A t \in LockingThreads : WF_vars(Progress(t))

InCall(t) == stmt[t] > 0

\* C32: every call of performFailover and of addStorageNode returns once its
\* remote calls return: no thread waits forever for the state lock, and in
\* particular none waits for a lock it holds itself.
C32_CallsReturn ==
    /\ InCall("performFailover") ~> (stmt["performFailover"] = 0)
    /\ InCall("addStorageNode") ~> (stmt["addStorageNode"] = 0)

(***************************************************************************)
(* Health probes.  getNetworkStats sends one HealthCheck to its server and *)
(* derives the node's status from the answer; getClusterStats does so for  *)
(* every tracked node.  What statvfs reports on a server is an input of    *)
(* each probe.                                                             *)
(***************************************************************************)
\* getDiskUsagePercentage() of a server: below and above the threshold.
DiskUsages == {50, 95}

\* StorageServiceImpl::HealthCheck: healthy unless disk usage exceeds 90%; the
\* call itself is answered with grpc::Status::OK in both cases.
HealthCheck(diskUsage) ==
    [ok |-> TRUE,
     healthy |-> ~(diskUsage > 90),
     status |-> IF diskUsage > 90 THEN "WARNING: High disk usage" ELSE "OK"]

\* The HealthCheck request of the client to server n; a request that is not
\* answered leaves the response as constructed.
healthCheckRpc(n, diskUsage) ==
    IF n \in up THEN HealthCheck(diskUsage)
    ELSE [ok |-> FALSE, healthy |-> FALSE, status |-> ""]

\* stats.status = status.ok() ? "healthy" : "unhealthy"
StatsStatus(response) == IF response.ok THEN "healthy" ELSE "unhealthy"

\* getNetworkStats() of node n, with the answer its probe got.
getNetworkStats(n, diskUsage) ==
    LET response == healthCheckRpc(n, diskUsage)
    IN [status |-> StatsStatus(response), response |-> response]

\* getClusterStats(): one getNetworkStats per tracked node, healthyNodes counted
\* from the status of each.
getClusterStatsProbed(nd, usage) ==
    LET ns == [n \in DOMAIN nd |-> getNetworkStats(n, usage[n])]
    IN [healthyNodes |-> Cardinality({n \in DOMAIN nd : ns[n].status = "healthy"}),
        nodeStats |-> ns]

GetClusterStatsCall ==
    /\ ~crashed
    /\ \A n \in DOMAIN nodes : nodes[n] = "ptr"
    /\ \E usage \in [NodeIds -> DiskUsages] : clusterStats' = getClusterStatsProbed(nodes, usage)
    /\ ServersUnchanged /\ MembershipUnchanged
    /\ UNCHANGED <<config, zkSession, up, crashed, op, prev, stable, calls, faults, changes, admin>>

NextHealth ==
    \/ AddStorageNodeStep /\ UNCHANGED <<lockVars, fileVars, balanceVars, serviceVars, healthVars, monitorVars, localVars, last, electVars, admin>>
    \/ ServerOutageStep /\ UNCHANGED <<lockVars, fileVars, balanceVars, serviceVars, healthVars, monitorVars, localVars, last, electVars, admin>>
    \/ GetClusterStatsCall /\ UNCHANGED <<lockVars, fileVars, balanceVars, serviceVars, monitorVars, localVars, last, electVars>>

SpecHealth == InitCluster /\ [][NextHealth]_vars

\* The probe behind a node's reported stats succeeded: answered, healthy=true.
ProbeSucceeded(n) == clusterStats.nodeStats[n].response.ok /\ clusterStats.nodeStats[n].response.healthy

\* C33: a node whose most recent health probe did not succeed (healthy=false
\* for disk usage above 90%, or the RPC failed) is not reported with status
\* "healthy" by getNetworkStats and is not counted in healthyNodes by
\* getClusterStats.
C33_FailedProbeNotHealthy ==
    /\ \A n \in DOMAIN clusterStats.nodeStats :
          ~ProbeSucceeded(n) => clusterStats.nodeStats[n].status # "healthy"
    /\ clusterStats.healthyNodes <= Cardinality({n \in DOMAIN clusterStats.nodeStats : ProbeSucceeded(n)})

(***************************************************************************)
(* Claims about the nodes of one placement, checked under SpecCluster.     *)
(***************************************************************************)
\* The primary and replica ids of a placement, in order.
PlacedIds(pl) == pl.primaryNodes \o pl.replicaNodes

NoRepeats(s) == \A i, j \in DOMAIN s : i # j => s[i] # s[j]

\* C34: for every filename and every non-empty membership the primary and
\* replica ids calculateDataPlacement returns are pairwise distinct, also when
\* partitionMap holds fewer nodes than replicationFactor: no node appears
\* twice and the primary is never a replica as well.
C34_PlacementDistinct ==
    partitionMap # <<>> => \A f \in ClusterFiles : NoRepeats(PlacedIds(PlacementNow(f)))

(***************************************************************************)
(* Claims about the keys chunks are stored under, checked under SpecNode.  *)
(***************************************************************************)
\* The (filename, chunkNumber) pairs a valid request can name.
ChunkIds == (FileNames \ {""}) \X (ChunkNumbers \ {-1})

\* C35: storeChunk(f, n, ...) changes only what is retrievable as chunk n of
\* f: for every other pair (f', n') the answer of retrieveChunk(f', n') is the
\* same before and after the call, no two pairs being kept under one key.
C35_StoreChunkFrame ==
    [][LastIsStore' =>
          \A c \in ChunkIds :
              c # <<last'.filename, last'.chunk_number>> =>
                  (Retrievable(c[1], c[2]))' = Retrievable(c[1], c[2])]_vars

(***************************************************************************)
(* Claims about what a reported write left on the primary node, checked    *)
(* under SpecCluster.                                                      *)
(***************************************************************************)
\* The primary node holds chunk 0 of the file: it accepted a storeChunk for it.
PrimaryHolds(o) == o.filename \in DOMAIN fileMap[o.primaryNodes[1]]

\* C36: writeFile reports success only if the primary node accepted at least
\* one storeChunk for the file; for empty data, which storeChunk rejects as
\* InvalidArgument, storeFile and writeFile do not return true.
C36_WriteStoresSomething ==
    (WriteReturned /\ op.ok) => (op.data # <<>> /\ PrimaryHolds(op))

(***************************************************************************)
(* One storage server serving requests on several threads.  StorageNode    *)
(* has no mutex: the statements of storeFile, deleteFile and listFiles of  *)
(* different requests interleave, each statement being one step.  Two      *)
(* threads about to access fileMap, one of them writing it, are a data     *)
(* race: the accesses may come out in either order, or the process dies.   *)
(***************************************************************************)
ServiceKeys == {"f", "g"}
ServicePayloads == {<<1>>}

Handler(h) == handlers[h]

ReturnFrom(h) == [Handler(h) EXCEPT !.pc = "idle"]

Goto(h, pc) == [Handler(h) EXCEPT !.pc = pc]

Serving(h, kind, pc) == serving /\ Handler(h).op = kind /\ Handler(h).pc = pc

NodeFileMap == fileMap[ServiceNode]
NodeDisk == disk[ServiceNode]

DeleteInProgress(f) ==
    \E h \in Handlers : Handler(h).op = "delete" /\ Handler(h).filename = f /\ Handler(h).pc # "idle"

\* A StoreChunk request for chunk 0 of f, valid and without checksum, arrives.
StoreBegin(h, f, data) ==
    /\ serving /\ Handler(h).pc = "idle"
    /\ handlers' = [handlers EXCEPT ![h] = [IdleHandler EXCEPT !.op = "store", !.filename = f,
                                                              !.data = data, !.pc = "open"]]
    /\ UNCHANGED <<fileMap, disk, durable, serving>>

\* std::ofstream file(fullPath): creates the file or truncates it.
StoreOpen(h, ioOk) ==
    /\ Serving(h, "store", "open")
    /\ IF ioOk
       THEN /\ disk' = [disk EXCEPT ![ServiceNode] =
                           Put(NodeDisk, getFullPath(Handler(h).filename), <<>>)]
            /\ handlers' = [handlers EXCEPT ![h] = Goto(h, "write")]
       ELSE /\ handlers' = [handlers EXCEPT ![h] = ReturnFrom(h)]
            /\ UNCHANGED disk
    /\ UNCHANGED <<fileMap, durable, serving>>

\* file << content; file.close(): into the file that was opened, which a remove
\* in between has taken out of the directory.
StoreWrite(h) ==
    /\ Serving(h, "store", "write")
    /\ LET fullPath == getFullPath(Handler(h).filename)
       IN disk' = IF fullPath \in DOMAIN NodeDisk
                  THEN [disk EXCEPT ![ServiceNode] =
                           Put(NodeDisk, fullPath, WrittenContent(NodeDisk[fullPath], Handler(h).data))]
                  ELSE disk
    /\ handlers' = [handlers EXCEPT ![h] = Goto(h, "insert")]
    /\ UNCHANGED <<fileMap, durable, serving>>

\* fileMap[filename] = fullPath; return true.
StoreInsert(h) ==
    /\ Serving(h, "store", "insert")
    /\ fileMap' = [fileMap EXCEPT ![ServiceNode] =
                      Put(NodeFileMap, Handler(h).filename, getFullPath(Handler(h).filename))]
    /\ handlers' = [handlers EXCEPT ![h] = ReturnFrom(h)]
    /\ durable' = IF DeleteInProgress(Handler(h).filename) THEN durable
                  ELSE durable \cup {Handler(h).filename}
    /\ UNCHANGED <<disk, serving>>

\* A DeleteFile request for f arrives.
DeleteBegin(h, f) ==
    /\ serving /\ Handler(h).pc = "idle"
    /\ handlers' = [handlers EXCEPT ![h] = [IdleHandler EXCEPT !.op = "delete", !.filename = f,
                                                              !.pc = "find"]]
    /\ durable' = durable \ {f}
    /\ UNCHANGED <<fileMap, disk, serving>>

\* auto it = fileMap.find(filename); if (it != fileMap.end())
DeleteFind(h) ==
    /\ Serving(h, "delete", "find")
    /\ handlers' = [handlers EXCEPT ![h] =
                       IF Handler(h).filename \in DOMAIN NodeFileMap
                       THEN Goto(h, "remove") ELSE ReturnFrom(h)]
    /\ UNCHANGED <<fileMap, disk, durable, serving>>

\* if (std::filesystem::remove(it->second))
DeleteRemove(h, ioOk) ==
    /\ Serving(h, "delete", "remove")
    /\ LET fullPath == getFullPath(Handler(h).filename)
       IN IF ioOk /\ fullPath \in DOMAIN NodeDisk
          THEN /\ disk' = [disk EXCEPT ![ServiceNode] = Drop(NodeDisk, fullPath)]
               /\ handlers' = [handlers EXCEPT ![h] = Goto(h, "erase")]
          ELSE /\ handlers' = [handlers EXCEPT ![h] = ReturnFrom(h)]
               /\ UNCHANGED disk
    /\ UNCHANGED <<fileMap, durable, serving>>

\* fileMap.erase(it); return true.
DeleteErase(h) ==
    /\ Serving(h, "delete", "erase")
    /\ Handler(h).filename \in DOMAIN NodeFileMap
    /\ fileMap' = [fileMap EXCEPT ![ServiceNode] = Drop(NodeFileMap, Handler(h).filename)]
    /\ handlers' = [handlers EXCEPT ![h] = ReturnFrom(h)]
    /\ UNCHANGED <<disk, durable, serving>>

\* A ListFiles request arrives.
ListBegin(h) ==
    /\ serving /\ Handler(h).pc = "idle"
    /\ handlers' = [handlers EXCEPT ![h] = [IdleHandler EXCEPT !.op = "list", !.pc = "iterate"]]
    /\ UNCHANGED <<fileMap, disk, durable, serving>>

\* for (const auto &pair : fileMap) files.push_back(pair.first); return files.
ListIterate(h) ==
    /\ Serving(h, "list", "iterate")
    /\ handlers' = [handlers EXCEPT ![h] =
                       [Handler(h) EXCEPT !.pc = "idle", !.filenames = listFiles(NodeFileMap)]]
    /\ UNCHANGED <<fileMap, disk, durable, serving>>

MapAccess(h) == Handler(h).pc \in {"insert", "find", "erase", "iterate"}
MapWrite(h) == Handler(h).pc \in {"insert", "erase"}

\* Two unsynchronised accesses to fileMap, one a write, or an erase through an
\* iterator whose element another request has erased.
UndefinedAccess ==
    \/ \E h, g \in Handlers : h # g /\ MapWrite(h) /\ MapAccess(g)
    \/ \E h \in Handlers : Handler(h).pc = "erase" /\ Handler(h).filename \notin DOMAIN NodeFileMap

\* An outcome of the undefined access: the server process dies.
ServerDies ==
    /\ serving
    /\ UndefinedAccess
    /\ serving' = FALSE
    /\ UNCHANGED <<fileMap, disk, handlers, durable>>

ServiceRest == <<last, electVars, clusterVars, localVars, monitorVars, lockVars, healthVars, balanceVars, fileVars>>

NextService ==
    \/ \E h \in Handlers, f \in ServiceKeys, d \in ServicePayloads : StoreBegin(h, f, d) /\ UNCHANGED ServiceRest
    \/ \E h \in Handlers, ioOk \in BOOLEAN : StoreOpen(h, ioOk) /\ UNCHANGED ServiceRest
    \/ \E h \in Handlers : StoreWrite(h) /\ UNCHANGED ServiceRest
    \/ \E h \in Handlers : StoreInsert(h) /\ UNCHANGED ServiceRest
    \/ \E h \in Handlers, f \in ServiceKeys : DeleteBegin(h, f) /\ UNCHANGED ServiceRest
    \/ \E h \in Handlers : DeleteFind(h) /\ UNCHANGED ServiceRest
    \/ \E h \in Handlers, ioOk \in BOOLEAN : DeleteRemove(h, ioOk) /\ UNCHANGED ServiceRest
    \/ \E h \in Handlers : DeleteErase(h) /\ UNCHANGED ServiceRest
    \/ \E h \in Handlers : ListBegin(h) /\ UNCHANGED ServiceRest
    \/ \E h \in Handlers : ListIterate(h) /\ UNCHANGED ServiceRest
    \/ ServerDies /\ UNCHANGED ServiceRest

SpecService == InitNode /\ [][NextService]_vars

\* The handler's ListFiles returns in this step.
ListReturns(h) == Handler(h).op = "list" /\ Handler(h).pc = "iterate" /\ handlers'[h].pc = "idle"

\* C37: under every interleaving of concurrent StoreChunk, DeleteFile and
\* ListFiles requests on one node, every filename listFiles returns is
\* retrievable with non-empty data, and every key whose store succeeded and
\* was not deleted afterwards is listed.
C37_ListedIsRetrievable ==
    [][\A h \in Handlers :
          ListReturns(h) =>
              /\ \A k \in handlers'[h].filenames :
                    retrieveFile(fileMap'[ServiceNode], disk'[ServiceNode], k) # <<>>
              /\ durable' \subseteq handlers'[h].filenames]_vars

(***************************************************************************)
(* rebalanceCluster.  bytesTransferred of a node is whatever its transfer  *)
(* log holds, an input of each pass.  size_t division by zero is undefined *)
(* behaviour: the process is stopped by the trap, or the quotient is some  *)
(* value and the pass goes on.                                             *)
(***************************************************************************)
MaxRebalances == 2

Loads == {0, 1, 4}

RECURSIVE SumOver(_, _)
SumOver(load, ids) ==
    IF ids = {} THEN 0
    ELSE LET n == CHOOSE x \in ids : TRUE IN load[n] + SumOver(load, ids \ {n})

\* totalStorage: the sum of bytesTransferred over state.nodes.
totalStorage(nd, load) == SumOver(load, DOMAIN nd)

\* stats.bytesTransferred > targetPerNode * 1.1
Overloaded(bytes, target) == 10 * bytes > 11 * target

\* stats.bytesTransferred < targetPerNode * 0.9
Underloaded(bytes, target) == ~Overloaded(bytes, target) /\ 10 * bytes < 9 * target

\* The pass from the division on, for the quotient it computed.
BalancePass(nd, load, target) ==
    [n |-> balance.n + 1,
     nodeCount |-> Cardinality(DOMAIN nd),
     targetPerNode |-> target,
     overloadedNodes |-> {n \in DOMAIN nd : Overloaded(load[n], target)},
     underloadedNodes |-> {n \in DOMAIN nd : Underloaded(load[n], target)}]

\* rebalanceCluster(): nothing is moved; "move data" is a comment.
rebalanceCluster(load, trap) ==
    /\ ~crashed
    /\ \A n \in DOMAIN nodes : nodes[n] = "ptr"
    /\ IF Cardinality(DOMAIN nodes) = 0
       THEN \* totalStorage / state.nodes.size() with size() = 0
            /\ crashed' = trap
            /\ balance' = BalancePass(nodes, load, 0)
       ELSE /\ UNCHANGED crashed
            /\ balance' = BalancePass(nodes, load,
                                      totalStorage(nodes, load) \div Cardinality(DOMAIN nodes))
    /\ ServersUnchanged /\ MembershipUnchanged
    /\ UNCHANGED <<config, zkSession, up, op, prev, stable, calls, faults, changes, admin>>

RebalanceClusterCall ==
    /\ balance.n < MaxRebalances
    /\ \E load \in [NodeIds -> Loads], trap \in BOOLEAN : rebalanceCluster(load, trap)

\* addStorageNode with enableAutoRebalancing: the new node, then a pass.
NextRebalance ==
    \/ AddStorageNodeStep /\ UNCHANGED <<lockVars, fileVars, balanceVars, serviceVars, healthVars, monitorVars, localVars, last, electVars, admin>>
    \/ PerformFailoverStep /\ UNCHANGED <<lockVars, fileVars, balanceVars, serviceVars, healthVars, monitorVars, localVars, last, electVars, admin>>
    \/ RebalanceClusterCall /\ UNCHANGED <<lockVars, fileVars, serviceVars, healthVars, monitorVars, localVars, last, electVars>>

SpecRebalance == InitCluster /\ [][NextRebalance]_vars

\* C38: rebalanceCluster never computes targetPerNode with a node count of
\* zero, whether called on an empty cluster, after every node was failed over
\* or from addStorageNode; and it changes neither membership nor stored data.
C38_RebalanceDividesSafely ==
    /\ [](balance.n > 0 => balance.nodeCount > 0)
    /\ [][balance'.n > balance.n =>
             UNCHANGED <<nodes, partitionMap, zkNodes, fileMap, disk>>]_vars

(***************************************************************************)
(* File calls of the single-process manager (FileSystemManager.cpp).  Its  *)
(* nodes are StorageNode objects in one process, each with a fileMap of    *)
(* its own over the directory it was given; two nodes given one directory  *)
(* share its files.  Calls run one at a time.                              *)
(***************************************************************************)
MaxFileNodes == 2
MaxLocalCalls == 4

LocalFiles == {"f"}
LocalContents == {<<>>, <<1>>, <<1, 1>>}

\* StorageNode::storeFile of a node whose basePath is base.
storeFileAt(base, fm, dk, filename, content, ioOk) ==
    LET fullPath == base \o "/" \o filename
        old == IF fullPath \in DOMAIN dk THEN dk[fullPath] ELSE <<>>
    IN IF ioOk
       THEN [ok |-> TRUE,
             fileMap |-> Put(fm, filename, fullPath),
             disk |-> Put(dk, fullPath, WrittenContent(old, content))]
       ELSE [ok |-> FALSE, fileMap |-> fm, disk |-> dk]

\* The node the loop of moveFile is left with: the last one with that id, 0 if none.
FindLast(list, nodeId) ==
    LET hits == {i \in DOMAIN list : list[i].nodeId = nodeId}
    IN IF hits = {} THEN 0 ELSE CHOOSE i \in hits : \A j \in hits : j <= i

LocalCallOf(call, filename, content, s, t, result, out) ==
    [n |-> localCall.n + 1, call |-> call, filename |-> filename, content |-> content,
     source |-> s, target |-> t, result |-> result, out |-> out]

\* addStorageNode on a manager that holds files: the new node's fileMap is empty.
AddLocalNode(nodeId, path, dirOk) ==
    /\ addLocalStorageNode(nodeId, path, dirOk)
    /\ localMaps' = IF Len(nodeList') > Len(nodeList) THEN Append(localMaps, EmptyMap) ELSE localMaps
    /\ UNCHANGED <<localDisk, localCall, latest>>

\* The record of a writeFile that returned true: its content, and whether a
\* writeFile of the file had returned true before it with no delete since.
Written(filename, content) == [content |-> content, second |-> filename \in DOMAIN latest]

\* writeFile(filename, content): the node drawn at random is nodeIndex.
localWriteFile(filename, content, nodeIndex, ioOk) ==
    /\ UNCHANGED localVars
    /\ IF nodeList = <<>>
       THEN /\ localCall' = LocalCallOf("writeFile", filename, content, 0, 0, FALSE, <<>>)
            /\ UNCHANGED <<localMaps, localDisk, latest>>
       ELSE /\ nodeIndex \in DOMAIN nodeList
            /\ LET r == storeFileAt(nodeList[nodeIndex].basePath, localMaps[nodeIndex], localDisk,
                                    filename, content, ioOk)
               IN /\ localMaps' = [localMaps EXCEPT ![nodeIndex] = r.fileMap]
                  /\ localDisk' = r.disk
                  /\ localCall' = LocalCallOf("writeFile", filename, content, 0, nodeIndex, r.ok, <<>>)
                  /\ latest' = IF r.ok THEN Put(latest, filename, Written(filename, content)) ELSE latest

RECURSIVE FirstContent(_, _, _, _)
\* readFile's loop from node i on: the first non-empty content, "" if none.
FirstContent(maps, dk, filename, i) ==
    IF i > Len(maps) THEN <<>>
    ELSE LET content == retrieveFile(maps[i], dk, filename)
         IN IF content # <<>> THEN content ELSE FirstContent(maps, dk, filename, i + 1)

localReadFile(filename) ==
    /\ localCall' = LocalCallOf("readFile", filename, <<>>, 0, 0, TRUE,
                                FirstContent(localMaps, localDisk, filename, 1))
    /\ UNCHANGED <<localVars, localMaps, localDisk, latest>>

RECURSIVE DeleteFrom(_, _, _, _, _)
\* deleteFile's loop from node i on; ioOk[i]: the removal on node i can succeed.
DeleteFrom(maps, dk, filename, i, ioOk) ==
    IF i > Len(maps) THEN [maps |-> maps, disk |-> dk, deleted |-> FALSE]
    ELSE LET r == deleteFile(maps[i], dk, filename, ioOk[i])
             rest == DeleteFrom([maps EXCEPT ![i] = r.fileMap], r.disk, filename, i + 1, ioOk)
         IN [rest EXCEPT !.deleted = r.ok \/ rest.deleted]

localDeleteFile(filename, ioOk) ==
    /\ LET r == DeleteFrom(localMaps, localDisk, filename, 1, ioOk)
       IN /\ localMaps' = r.maps
          /\ localDisk' = r.disk
          /\ localCall' = LocalCallOf("deleteFile", filename, <<>>, 0, 0, r.deleted, <<>>)
    /\ latest' = Drop(latest, filename)
    /\ UNCHANGED localVars

\* moveFile between the nodes at s and t of the list: what it returns and leaves.
MoveResult(filename, s, t, storeOk, deleteOk, rollbackOk) ==
    LET content == retrieveFile(localMaps[s], localDisk, filename)
        stored == storeFileAt(nodeList[t].basePath, localMaps[t], localDisk, filename, content, storeOk)
        maps1 == [localMaps EXCEPT ![t] = stored.fileMap]
        deleted == deleteFile(maps1[s], stored.disk, filename, deleteOk)
        maps2 == [maps1 EXCEPT ![s] = deleted.fileMap]
        rollback == deleteFile(maps1[t], stored.disk, filename, rollbackOk)
        maps3 == [maps1 EXCEPT ![t] = rollback.fileMap]
    IN IF content = <<>> \/ ~stored.ok
       THEN [result |-> FALSE, maps |-> localMaps, disk |-> localDisk]
       ELSE IF deleted.ok
       THEN [result |-> TRUE, maps |-> maps2, disk |-> deleted.disk]
       ELSE [result |-> FALSE, maps |-> maps3, disk |-> rollback.disk]

moveFile(filename, sourceNode, targetNode, storeOk, deleteOk, rollbackOk) ==
    LET s == FindLast(nodeList, sourceNode)
        t == FindLast(nodeList, targetNode)
    IN /\ UNCHANGED localVars
       /\ latest' = Drop(latest, filename)
       /\ IF s = 0 \/ t = 0
          THEN /\ localCall' = LocalCallOf("moveFile", filename, <<>>, s, t, FALSE, <<>>)
               /\ UNCHANGED <<localMaps, localDisk>>
          ELSE LET r == MoveResult(filename, s, t, storeOk, deleteOk, rollbackOk)
               IN /\ localMaps' = r.maps
                  /\ localDisk' = r.disk
                  /\ localCall' = LocalCallOf("moveFile", filename,
                                              retrieveFile(localMaps[s], localDisk, filename),
                                              s, t, r.result, <<>>)

AddLocalNodeCall ==
    /\ Len(nodeList) < MaxFileNodes
    /\ \E n \in NodeIds, p \in LocalPaths, dirOk \in BOOLEAN : AddLocalNode(n, p, dirOk)

LocalWriteFileCall ==
    /\ localCall.n < MaxLocalCalls
    /\ \E f \in LocalFiles, c \in LocalContents, i \in 1..MaxFileNodes, ioOk \in BOOLEAN :
          localWriteFile(f, c, i, ioOk)

LocalReadFileCall == localCall.n < MaxLocalCalls /\ \E f \in LocalFiles : localReadFile(f)

LocalDeleteFileCall ==
    /\ localCall.n < MaxLocalCalls
    /\ \E f \in LocalFiles, ioOk \in [1..MaxFileNodes -> BOOLEAN] : localDeleteFile(f, ioOk)

MoveFileCall ==
    /\ localCall.n < MaxLocalCalls
    /\ \E f \in LocalFiles, src \in NodeIds, tgt \in NodeIds,
          storeOk \in BOOLEAN, deleteOk \in BOOLEAN, rollbackOk \in BOOLEAN :
          moveFile(f, src, tgt, storeOk, deleteOk, rollbackOk)

FilesRest == <<nodeVars, electVars, clusterVars, monitorVars, lockVars, healthVars,
               serviceVars, balanceVars>>

NextFiles ==
    \/ AddLocalNodeCall /\ UNCHANGED FilesRest
    \/ LocalWriteFileCall /\ UNCHANGED FilesRest
    \/ LocalReadFileCall /\ UNCHANGED FilesRest
    \/ LocalDeleteFileCall /\ UNCHANGED FilesRest
    \/ MoveFileCall /\ UNCHANGED FilesRest

SpecFiles == InitLocal /\ [][NextFiles]_vars

\* moveFile has just run between two nodes of the list.
Moved == localCall'.n > localCall.n /\ localCall'.call = "moveFile"
         /\ localCall'.source > 0 /\ localCall'.target > 0

\* What the node at i of the list returns for the file, before and after the step.
OnNode(i, f) == retrieveFile(localMaps[i], localDisk, f)
OnNodeAfter(i, f) == retrieveFile(localMaps'[i], localDisk', f)

\* C39: moveFile(f, source, target) never loses the file: if it returns true,
\* f is retrievable from target with the content it had on source and is no
\* longer on source; if it returns false, f is still retrievable from source
\* with unchanged content; for every pair of existing nodes, also source =
\* target (where the file stays on the one node).
C39_MoveKeepsFile ==
    [][Moved =>
          LET s == localCall'.source
              t == localCall'.target
              f == localCall'.filename
          IN /\ localCall'.result =>
                    /\ OnNodeAfter(t, f) = OnNode(s, f)
                    /\ s # t => f \notin DOMAIN localMaps'[s]
             /\ ~localCall'.result => OnNodeAfter(s, f) = OnNode(s, f)]_vars

\* readFile has just returned.
ReadReturned == localCall'.n > localCall.n /\ localCall'.call = "readFile"

\* C40: a read returns the latest write: after writeFile(f, d1) and then
\* writeFile(f, d2) both returned true with no delete of f in between,
\* readFile(f) returns d2, whichever nodes the two writes were placed on.
C40_ReadLatestWrite ==
    [][(ReadReturned /\ localCall'.filename \in DOMAIN latest
          /\ latest[localCall'.filename].second) =>
              localCall'.out = latest[localCall'.filename].content]_vars

====
